---- MODULE Spec2Model ----
(***************************************************************************)
(* Model of the Mistral provider of docsray                                *)
(* (src/src/docsray/providers/mistral.py): the provider lifecycle, the     *)
(* three AI operations classify_pages, extract_fields and summarize_pages, *)
(* and the two result validators.                                          *)
(*                                                                         *)
(* Python values are tagged records: [t |-> "null"], [t |-> "bool", b],    *)
(* [t |-> "num", n], [t |-> "str", s], [t |-> "text", chunks],             *)
(* [t |-> "list", items], [t |-> "dict", d].  Floats are counted in tenths *)
(* (0.9 is 9, 1.0 is 10), integers are [t |-> "int", i].  A "str" is an atomic string (a label, a name);  *)
(* a "text" is a string the code builds or takes apart (the transport's    *)
(* content, an error message): a sequence of chunks.                       *)
(***************************************************************************)
EXTENDS Integers, Sequences, FiniteSets, TLC

VARIABLES
    config,        \* MistralProvider.config
    _initialized,  \* MistralProvider._initialized
    _client,       \* MistralProvider._client
    call,          \* the most recent call: its name and its arguments
    ret,           \* its outcome: the exception that escaped, or the value
    transport,     \* the transport calls that call has made, in order
    frame          \* the local frame of a suspended summarize_pages

vars == <<config, _initialized, _client, call, ret, transport, frame>>

(***************************************************************************)
(* Bounds                                                                  *)
(***************************************************************************)
MaxItems == 3      \* longest array of records given to a validator
MaxReplyItems == 2 \* longest array of records in a transport reply
MaxPages == 2      \* longest page batch given to summarize_pages
MaxPad == 1        \* most whitespace chunks on either side of a content

(***************************************************************************)
(* Python values                                                           *)
(***************************************************************************)
None == [t |-> "null"]
JBool(b) == [t |-> "bool", b |-> b]
JNum(n) == [t |-> "num", n |-> n]
JInt(i) == [t |-> "int", i |-> i]
JStr(s) == [t |-> "str", s |-> s]
JText(chunks) == [t |-> "text", chunks |-> chunks]
JList(items) == [t |-> "list", items |-> items]
JDict(d) == [t |-> "dict", d |-> d]

\* sequences over S of length at most n
SeqUpTo(S, n) == UNION {[1..k -> S] : k \in 0..n}

\* isinstance(v, list), isinstance(v, dict)
IsList(v) == v.t = "list"
IsDict(v) == v.t = "dict"

\* k in item, for a dict
HasKey(v, k) == k \in DOMAIN v.d

\* dict.get(k, default)
Get(v, k, default) == IF HasKey(v, k) THEN v.d[k] ELSE default

\* a == b on Python values: bool is a subtype of int (True == 1), and
\* values of unrelated types are unequal
NumOf(v) ==
    IF v.t = "bool" THEN (IF v.b THEN 10 ELSE 0)
    ELSE IF v.t = "int" THEN 10 * v.i
    ELSE v.n
IsNumber(v) == v.t \in {"num", "int", "bool"}
PyEq(a, b) ==
    IF IsNumber(a) /\ IsNumber(b) THEN NumOf(a) = NumOf(b)
    ELSE a = b

\* x in labels, for a list: some element equals x
PyIn(x, xs) == \E i \in 1..Len(xs) : PyEq(xs[i], x)

\* bool(v): None, False, 0, "" and empty containers are false
Truthy(v) ==
    CASE v.t = "null" -> FALSE
      [] v.t = "bool" -> v.b
      [] v.t = "num" -> v.n # 0
      [] v.t = "int" -> v.i # 0
      [] v.t = "str" -> v.s # ""
      [] v.t = "text" -> v.chunks # <<>>
      [] v.t = "list" -> v.items # <<>>
      [] v.t = "dict" -> DOMAIN v.d # {}
      [] OTHER -> TRUE

\* what a call hands back: the value it returned, or the exception that escaped
\* (raised is the exception's type, msg is str(e))
Return(v) == [raised |-> "", msg |-> <<>>, value |-> v]
Raise(type, msg) == [raised |-> type, msg |-> msg, value |-> None]
Pending == [raised |-> "", msg |-> <<>>, value |-> [t |-> "pending"]]

\* a chunk of a text: some characters, or the JSON text of a value
Ch(s) == [c |-> s]
Dumps(v) == [c |-> "json", v |-> v]

(***************************************************************************)
(* _validate_classification_result (mistral.py 624-671)                    *)
(***************************************************************************)
\* the bounds of a confidence, in tenths
ConfMin == 0
ConfMax == 10

ClassificationKeys == {"page", "label", "confidence"}

\* all(k in item for k in ["page", "label", "confidence"])
HasAllKeys(item, keys) == \A k \in keys : HasKey(item, k)

\* item["label"] not in labels and item["label"] != "other"
LabelRejected(label, labels) ==
    ~PyIn(label, labels) /\ ~PyEq(label, JStr("other"))

\* 0.0 <= c <= 1.0 raises TypeError unless c is a number (bool included)
Comparable(c) == IsNumber(c)
ConfidenceInRange(c) == ConfMin <= NumOf(c) /\ NumOf(c) <= ConfMax

\* one pass of the loop body: "skip" (continue), "keep" (append) or "raise"
ClassificationVerdict(item, labels) ==
    IF ~IsDict(item) THEN "skip"
    ELSE IF ~HasAllKeys(item, ClassificationKeys) THEN "skip"
    ELSE IF LabelRejected(item.d["label"], labels) THEN "skip"
    ELSE IF ~Comparable(item.d["confidence"]) THEN "raise"
    ELSE IF ~ConfidenceInRange(item.d["confidence"]) THEN "skip"
    ELSE "keep"

\* mutant: only a list is a working array
WorkingArrayOfListOnly(result) ==
    IF IsList(result) THEN result ELSE JList(<<>>)

\* the working array: the list itself, the dict's "labels" value, or []
WorkingArray(result) ==
    IF IsList(result) THEN result
    ELSE IF IsDict(result) THEN Get(result, "labels", JList(<<>>))
    ELSE JList(<<>>)

\* for item in v: a list gives its items, a dict its keys, a string its
\* characters (strings of the model have at most one); else TypeError
Iterable(v) == v.t \in {"list", "dict", "str"}
SetToSeq(S) == CHOOSE f \in [1..Cardinality(S) -> S] :
                  \A i, j \in 1..Cardinality(S) : i # j => f[i] # f[j]
IterItems(v) ==
    IF v.t = "list" THEN v.items
    ELSE IF v.t = "dict" THEN [i \in 1..Cardinality(DOMAIN v.d) |->
                                  JStr(SetToSeq(DOMAIN v.d)[i])]
    ELSE IF v.s = "" THEN <<>> ELSE <<JStr(v.s)>>

\* mutant: a confidence above the range is clamped and the record kept
RECURSIVE ClassificationLoopClamping(_, _, _)
ClassificationLoopClamping(items, labels, validated) ==
    IF items = <<>> THEN Return(JList(validated))
    ELSE LET item == Head(items)
             verdict == ClassificationVerdict(item, labels)
             clamps == /\ verdict = "skip" /\ IsDict(item)
                       /\ HasAllKeys(item, ClassificationKeys)
                       /\ ~LabelRejected(item.d["label"], labels)
                       /\ NumOf(item.d["confidence"]) > ConfMax IN
         IF verdict = "raise" THEN Raise("TypeError", <<Ch("'<=' not supported")>>)
         ELSE ClassificationLoopClamping(Tail(items), labels,
                 IF verdict = "keep" THEN Append(validated, item)
                 ELSE IF clamps
                    THEN Append(validated,
                            JDict([item.d EXCEPT !["confidence"] = JNum(ConfMax)]))
                 ELSE validated)

RECURSIVE ClassificationLoop(_, _, _)
ClassificationLoop(items, labels, validated) ==
    IF items = <<>> THEN Return(JList(validated))
    ELSE LET verdict == ClassificationVerdict(Head(items), labels) IN
         IF verdict = "raise" THEN Raise("TypeError", <<Ch("'<=' not supported")>>)
         ELSE ClassificationLoop(Tail(items), labels,
                 IF verdict = "keep" THEN Append(validated, Head(items))
                 ELSE validated)

_validate_classification_result(result, pages, labels) ==
    LET working == WorkingArray(result) IN
    IF ~Iterable(working)
        THEN Raise("TypeError", <<Ch("object is not iterable")>>)
    ELSE ClassificationLoop(IterItems(working), labels, <<>>)

(***************************************************************************)
(* _validate_extraction_result (mistral.py 673-709)                        *)
(***************************************************************************)
ExtractionKeys == {"name", "value", "confidence"}

\* mutant: no message
InvalidFormatSilent == JDict([fields |-> JList(<<>>), errors |-> JList(<<>>)])

InvalidFormat ==
    JDict([fields |-> JList(<<>>),
           errors |-> JList(<<JStr("Invalid result format: expected dict")>>)])

\* mutant: the confidence is checked as in classification
FieldAcceptedInRange(field) ==
    /\ IsDict(field)
    /\ HasAllKeys(field, ExtractionKeys)
    /\ Comparable(field.d["confidence"])
    /\ ConfidenceInRange(field.d["confidence"])

\* one pass of the loop body: is the field appended?
FieldAccepted(field) == IsDict(field) /\ HasAllKeys(field, ExtractionKeys)

\* fields = result.get("fields", []), replaced by [] when not a list
FieldsOf(result) ==
    LET fields == Get(result, "fields", JList(<<>>)) IN
    IF IsList(fields) THEN fields ELSE JList(<<>>)

RECURSIVE ExtractionLoop(_, _)
ExtractionLoop(fields, validated) ==
    IF fields = <<>> THEN validated
    ELSE ExtractionLoop(Tail(fields),
            IF FieldAccepted(Head(fields)) THEN Append(validated, Head(fields))
            ELSE validated)

\* mutant: a rejected field is reported in errors
_validate_extraction_resultReporting(result, schema) ==
    IF ~IsDict(result) THEN Return(InvalidFormat)
    ELSE LET validated == ExtractionLoop(FieldsOf(result).items, <<>>)
             errors == Get(result, "errors", JList(<<>>)) IN
         Return(JDict([fields |-> JList(validated),
                       errors |-> IF Len(validated) < Len(FieldsOf(result).items)
                                     THEN JList((IF IsList(errors) THEN errors.items
                                                 ELSE <<>>)
                                                \o <<JStr("Skipped invalid field")>>)
                                     ELSE errors]))

_validate_extraction_result(result, schema) ==
    IF ~IsDict(result) THEN Return(InvalidFormat)
    ELSE Return(JDict([fields |-> JList(ExtractionLoop(FieldsOf(result).items, <<>>)),
                       errors |-> Get(result, "errors", JList(<<>>))]))

(***************************************************************************)
(* The values the validators are applied to                                *)
(***************************************************************************)
Invoice == JStr("invoice")
Receipt == JStr("receipt")

\* the caller's label lists
LabelLists == {<<Invoice, Receipt>>, <<Invoice>>}

ClassRecord(page, label, confidence) ==
    JDict([page |-> JInt(page), label |-> label, confidence |-> confidence])

\* candidate records of a classification reply
ClassItems ==
    { ClassRecord(1, Invoice, JNum(9)),
      ClassRecord(2, JStr("other"), JNum(10)),
      ClassRecord(3, Receipt, JNum(0)),
      ClassRecord(1, JStr("Invoice"), JNum(9)),
      ClassRecord(2, Invoice, JNum(11)),
      ClassRecord(3, Invoice, JNum(-1)),
      ClassRecord(4, Invoice, JStr("high")),
      ClassRecord(4, JStr("other"), None),
      ClassRecord(5, JStr("bogus"), JStr("high")),
      JDict([page |-> JInt(2), label |-> Invoice]),
      JDict([page |-> JInt(6), label |-> Invoice, confidence |-> JInt(1),
             note |-> JStr("x")]),
      JStr("x") }

\* a labels value that is no array
NotAnArray == {None, JInt(5), JStr("x"), JStr(""), JDict([page |-> JInt(1)])}

ClassValues ==
    {JList(s) : s \in SeqUpTo(ClassItems, MaxItems)}
      \cup {JDict([labels |-> JList(s)]) : s \in SeqUpTo(ClassItems, MaxItems)}
      \cup {JDict([labels |-> x]) : x \in NotAnArray}
      \cup {JDict([results |-> JList(<<ClassRecord(1, Invoice, JNum(9))>>)]),
            None, JInt(5), JStr("x"), JBool(TRUE)}

Field(name, value, confidence) ==
    JDict([name |-> JStr(name), value |-> value, confidence |-> confidence])

\* the caller's schemas: {"fields": [{"name": ..., "type": ...}]}
SchemaOf(fields) == JDict([fields |-> JList(fields)])
SchemaField(name, type) == JDict([name |-> JStr(name), type |-> JStr(type)])
Schemas == {SchemaOf(<<SchemaField("revenue", "currency")>>), SchemaOf(<<>>)}

\* candidate entries of an extraction reply
FieldItems ==
    { Field("revenue", JInt(1000), JNum(9)),
      Field("revenue", None, JNum(9)),
      Field("unknown", JStr("x"), JNum(15)),
      Field("year", JInt(2024), JStr("high")),
      JDict([name |-> JStr("revenue"), value |-> JInt(1), confidence |-> JNum(-1),
             source |-> JDict([page |-> JInt(1)])]),
      JDict([name |-> JStr("revenue"), value |-> JInt(1)]),
      JDict([value |-> JInt(1), confidence |-> JNum(8)]),
      JStr("x") }

FieldsValues ==
    {JList(s) : s \in SeqUpTo(FieldItems, MaxItems)}
      \cup {None, JStr("x"), JDict([name |-> JStr("revenue")])}

ErrorsValues ==
    {JList(<<>>), JList(<<JStr("no year found")>>), None, JStr("oops")}

ExtractionValues ==
    {JDict([fields |-> f, errors |-> e]) : f \in FieldsValues, e \in ErrorsValues}
      \cup {JDict([fields |-> f]) : f \in FieldsValues}
      \cup {JDict([errors |-> e]) : e \in ErrorsValues}
      \cup {JList(<<Field("revenue", JInt(1000), JNum(9))>>), JList(<<>>),
            None, JInt(5), JStr("x"), JBool(FALSE)}

(***************************************************************************)
(* The provider before initialize (mistral.py 39-42)                       *)
(***************************************************************************)
Fresh ==
    /\ config = None
    /\ _initialized = FALSE
    /\ _client = None

NoFrame == [pc |-> "idle"]

(***************************************************************************)
(* SpecValidate: the validators applied to every value of the bounded sets *)
(***************************************************************************)
Input(result, labels, schema) ==
    [op |-> "input", result |-> result, pages |-> <<>>, labels |-> labels,
     schema |-> schema]

InitValidate ==
    /\ Fresh
    /\ \/ \E v \in ClassValues, l \in LabelLists :
             call = Input(v, l, SchemaOf(<<>>))
       \/ \E v \in ExtractionValues, s \in Schemas :
             call = Input(v, <<Invoice>>, s)
    /\ ret = Pending
    /\ transport = <<>>
    /\ frame = NoFrame

ValidateClassification ==
    /\ call.op = "input"
    /\ call' = [call EXCEPT !.op = "_validate_classification_result"]
    /\ ret' = _validate_classification_result(call.result, call.pages, call.labels)
    /\ UNCHANGED <<config, _initialized, _client, transport, frame>>

ValidateExtraction ==
    /\ call.op = "input"
    /\ call' = [call EXCEPT !.op = "_validate_extraction_result"]
    /\ ret' = _validate_extraction_result(call.result, call.schema)
    /\ UNCHANGED <<config, _initialized, _client, transport, frame>>

NextValidate == ValidateClassification \/ ValidateExtraction

SpecValidate == InitValidate /\ [][NextValidate]_vars

(***************************************************************************)
(* initialize and dispose (mistral.py 90-122)                              *)
(***************************************************************************)
Config(enabled, api_key) ==
    [t |-> "config", enabled |-> JBool(enabled), api_key |-> api_key]

ApiKeys == {None, JStr(""), JStr("test-key")}
Configs == {Config(e, k) : e \in BOOLEAN, k \in ApiKeys}

\* Mistral(api_key=config.api_key, server_url=config.base_url)
Client(cfg) == [t |-> "Mistral", api_key |-> cfg.api_key]

\* mutant: the API key is not checked
ReachesConstructorUnkeyed(cfg) == Truthy(cfg.enabled)

\* initialize goes on to construct the client: config.enabled and
\* config.api_key are both true
ReachesConstructor(cfg) == Truthy(cfg.enabled) /\ Truthy(cfg.api_key)

\* has dispose been called on the provider (the record of a call notes it)
WasDisposed == "disposed" \in DOMAIN call /\ call.disposed

\* is some call suspended at its transport call?
Suspended == frame.pc = "await"

\* a call made while summarize_pages is suspended leaves the record of
\* summarize_pages in place and is noted in it, with the page in flight
Nested(name) ==
    /\ call' = [call EXCEPT !.during = @ \cup {[op |-> name, index |-> frame.index]},
                            !.disposed = @ \/ name = "dispose"]
    /\ ret' = ret
    /\ transport' = transport
    /\ frame' = frame

\* initialize(cfg); constructed: the Mistral constructor returned, rather
\* than raising (ImportError or any other exception)
\* the provider self: its three attributes
Provider(cfg, initialized, client) ==
    [config |-> cfg, _initialized |-> initialized, _client |-> client]

\* self after self.initialize(cfg) has returned
initialize(self, cfg, constructed) ==
    IF ReachesConstructor(cfg) /\ constructed
       THEN Provider(cfg, TRUE, Client(cfg))
       ELSE Provider(cfg, FALSE, self._client)

Initialize(cfg, constructed) ==
    /\ LET self == initialize(Provider(config, _initialized, _client),
                              cfg, constructed) IN
          /\ config' = self.config
          /\ _client' = self._client
          /\ _initialized' = self._initialized
    /\ IF Suspended THEN Nested("initialize")
       ELSE /\ call' = [op |-> "initialize", config |-> cfg,
                        constructed |-> constructed,
                        was_client |-> _client, was_initialized |-> _initialized,
                disposed |-> WasDisposed]
            /\ ret' = Return(None)
            /\ transport' = <<>>
            /\ frame' = frame

\* mutant: the client is kept
DisposeKeepsClient ==
    /\ _client' = _client
    /\ _initialized' = FALSE
    /\ config' = config
    /\ IF Suspended THEN Nested("dispose")
       ELSE /\ call' = [op |-> "dispose", was_client |-> _client,
                        was_initialized |-> _initialized, disposed |-> TRUE]
            /\ ret' = Return(None)
            /\ transport' = <<>>
            /\ frame' = frame

\* dispose()
Dispose ==
    /\ _client' = None
    /\ _initialized' = FALSE
    /\ config' = config
    /\ IF Suspended THEN Nested("dispose")
       ELSE /\ call' = [op |-> "dispose", was_client |-> _client,
                        was_initialized |-> _initialized, disposed |-> TRUE]
            /\ ret' = Return(None)
            /\ transport' = <<>>
            /\ frame' = frame

(***************************************************************************)
(* The transport: self._client.chat.complete_async                         *)
(***************************************************************************)
\* a response: the call raised, or returned choices, each with a content
Raised(type, msg) == [kind |-> "raise", type |-> type, msg |-> msg]
Choices(contents) == [kind |-> "ok", choices |-> contents]

Whitespace == {Ch(" "), Ch("\n\t")}

\* str.strip(): the whitespace at both ends removed
RECURSIVE LStrip(_)
LStrip(chunks) ==
    IF chunks # <<>> /\ Head(chunks) \in Whitespace THEN LStrip(Tail(chunks))
    ELSE chunks
RECURSIVE RStrip(_)
RStrip(chunks) ==
    IF chunks # <<>> /\ chunks[Len(chunks)] \in Whitespace
       THEN RStrip(SubSeq(chunks, 1, Len(chunks) - 1))
    ELSE chunks
Strip(text) == JText(RStrip(LStrip(text.chunks)))

\* json.loads(text): the value when the text is the JSON text of one value
\* (whitespace around it allowed), else JSONDecodeError
json_loads(text) ==
    LET body == RStrip(LStrip(text.chunks)) IN
    IF Len(body) = 1 /\ body[1].c = "json" THEN Return(body[1].v)
    ELSE IF body = <<>> \/ body[1].c # "json"
         THEN Raise("JSONDecodeError", <<Ch("Expecting value: line 1 column 1 (char 0)")>>)
    ELSE Raise("JSONDecodeError", <<Ch("Extra data")>>)

\* mutant: no except clause
Uncaught(outcome, fallback) == outcome

\* try: body / except Exception: return fallback(e)
Caught(outcome, fallback) ==
    IF outcome.raised # "" THEN Return(fallback) ELSE outcome

NotInitialized == Raise("RuntimeError", <<Ch("Mistral client not initialized")>>)

\* the record of one transport call: the operation that made it and, for
\* summarize_pages, the index of the page it was made for
Request(op, index) == [op |-> op, index |-> index]

\* what an operation did: its outcome and the transport calls it made
Did(outcome, requests) == [ret |-> outcome, transport |-> requests]

(***************************************************************************)
(* classify_pages (mistral.py 354-428)                                     *)
(***************************************************************************)
\* ', '.join(labels) raises TypeError unless every label is a str
_build_classification_prompt(labels) ==
    IF \E i \in 1..Len(labels) : labels[i].t # "str"
       THEN Raise("TypeError", <<Ch("sequence item: expected str instance")>>)
    ELSE Return(JText(<<Ch("Classify each page into one of these categories: ")>>
                         \o [i \in 1..Len(labels) |-> Ch(labels[i].s)]))

\* lines 399-424: the response is in hand
ClassifyResponse(response, pages, labels) ==
    IF response.choices = <<>> THEN Return(JList(<<>>))
    ELSE LET result_text == response.choices[1] IN
         IF ~Truthy(result_text) THEN Return(JList(<<>>))
         ELSE IF ~Truthy(Strip(result_text)) THEN Return(JList(<<>>))
         ELSE LET parsed == json_loads(Strip(result_text)) IN
              IF parsed.raised # "" THEN Return(JList(<<>>))
              ELSE _validate_classification_result(parsed.value, pages, labels)

\* lines 399-421: the message the decode checks log with logger.error when
\* the response is in hand, None when they pass.  The messages are those
\* of extract_fields
ClassifyLogged(response) ==
    IF response.choices = <<>>
       THEN JStr("Mistral API returned empty response (no choices)")
    ELSE LET result_text == response.choices[1] IN
         IF ~Truthy(result_text)
            THEN JStr("Mistral API returned empty content in response")
         ELSE IF ~Truthy(Strip(result_text))
            THEN JStr("Mistral API returned whitespace-only content")
         ELSE LET parsed == json_loads(Strip(result_text)) IN
              IF parsed.raised # ""
                 THEN JText(<<Ch("Failed to parse Mistral response as JSON: ")>>
                               \o parsed.msg)
              ELSE None

\* lines 382-428: the try block, and the except around it
ClassifyTry(response, pages, labels) ==
    Caught(IF response.kind = "raise" THEN Raise(response.type, response.msg)
           ELSE ClassifyResponse(response, pages, labels),
           JList(<<>>))

\* mutant: the transport is called again when it has raised
classify_pages_onRetrying(client, pages, labels, system_prompt, response) ==
    IF ~Truthy(client) THEN Did(NotInitialized, <<>>)
    ELSE LET prompt == IF system_prompt = None
                          THEN _build_classification_prompt(labels)
                          ELSE Return(system_prompt) IN
         IF prompt.raised # "" THEN Did(prompt, <<>>)
         ELSE Did(ClassifyTry(response, pages, labels),
                  IF response.kind = "raise"
                     THEN <<Request("classify_pages", 0), Request("classify_pages", 0)>>
                     ELSE <<Request("classify_pages", 0)>>)

\* classify_pages on a provider whose _client is client
classify_pages_on(client, pages, labels, system_prompt, response) ==
    IF ~Truthy(client) THEN Did(NotInitialized, <<>>)
    ELSE LET prompt == IF system_prompt = None
                          THEN _build_classification_prompt(labels)
                          ELSE Return(system_prompt) IN
         IF prompt.raised # "" THEN Did(prompt, <<>>)
         ELSE Did(ClassifyTry(response, pages, labels),
                  <<Request("classify_pages", 0)>>)

classify_pages(pages, labels, system_prompt, response) ==
    classify_pages_on(_client, pages, labels, system_prompt, response)

(***************************************************************************)
(* extract_fields (mistral.py 430-507)                                     *)
(***************************************************************************)
\* f['name'], f['type'] for f in schema.get("fields", []): AttributeError
\* when the schema is no dict, TypeError when fields cannot be iterated or
\* an entry cannot be indexed by a string, KeyError when a key is missing
_build_extraction_prompt(schema) ==
    IF ~IsDict(schema)
       THEN Raise("AttributeError", <<Ch("object has no attribute 'get'")>>)
    ELSE LET fields == Get(schema, "fields", JList(<<>>)) IN
         IF ~Iterable(fields)
            THEN Raise("TypeError", <<Ch("object is not iterable")>>)
         ELSE LET fs == IterItems(fields) IN
              IF \E i \in 1..Len(fs) : ~IsDict(fs[i])
                 THEN Raise("TypeError", <<Ch("string indices must be integers")>>)
              ELSE IF \E i \in 1..Len(fs) : ~HasKey(fs[i], "name")
                 THEN Raise("KeyError", <<Ch("'name'")>>)
              ELSE IF \E i \in 1..Len(fs) : ~HasKey(fs[i], "type")
                 THEN Raise("KeyError", <<Ch("'type'")>>)
              ELSE Return(JText(<<Ch("Extract the following fields: ")>>
                                  \o [i \in 1..Len(fs) |-> Ch(fs[i].d["name"].s)]))

\* mutant: the message is not reported
FailedSilently(error_msg) == JDict([fields |-> JList(<<>>), errors |-> JList(<<>>)])

\* {"fields": [], "errors": [error_msg]}
Failed(error_msg) == JDict([fields |-> JList(<<>>), errors |-> JList(<<error_msg>>)])

NoChoicesMsg == JStr("Mistral API returned empty response (no choices)")
EmptyContentMsg == JStr("Mistral API returned empty content in response")
\* mutant: blank content reported with the message of empty content
BlankContentMsgAsEmpty == JStr("Mistral API returned empty content in response")
BlankContentMsg == JStr("Mistral API returned whitespace-only content")
\* f"Failed to parse Mistral response as JSON: {je}"
ParseFailedMsg(je) ==
    JText(<<Ch("Failed to parse Mistral response as JSON: ")>> \o je.msg)

\* lines 474-503: the response is in hand
ExtractResponse(response, schema) ==
    IF response.choices = <<>> THEN Return(Failed(NoChoicesMsg))
    ELSE LET result_text == response.choices[1] IN
         IF ~Truthy(result_text) THEN Return(Failed(EmptyContentMsg))
         ELSE IF ~Truthy(Strip(result_text)) THEN Return(Failed(BlankContentMsg))
         ELSE LET parsed == json_loads(Strip(result_text)) IN
              IF parsed.raised # "" THEN Return(Failed(ParseFailedMsg(parsed)))
              ELSE _validate_extraction_result(parsed.value, schema)

\* lines 454-507: the try block; except Exception as e gives str(e)
ExtractTry(response, schema) ==
    LET body == IF response.kind = "raise" THEN Raise(response.type, response.msg)
                ELSE ExtractResponse(response, schema) IN
    Caught(body, Failed(JText(body.msg)))

\* extract_fields on a provider whose _client is client
extract_fields_on(client, schema, inputs, response) ==
    IF ~Truthy(client) THEN Did(NotInitialized, <<>>)
    ELSE LET prompt == _build_extraction_prompt(schema) IN
         IF prompt.raised # "" THEN Did(prompt, <<>>)
         ELSE Did(ExtractTry(response, schema), <<Request("extract_fields", 0)>>)

extract_fields(schema, inputs, response) ==
    extract_fields_on(_client, schema, inputs, response)

(***************************************************************************)
(* summarize_pages (mistral.py 509-563)                                    *)
(***************************************************************************)
\* mutant: the summary is str(e) alone
ErrorEntryUnmarked(page, msg) ==
    JDict([page |-> Get(page, "page", None), summary |-> JText(msg)])

\* {"page": page.get("page"), "summary": f"Error: {str(e)}"}
ErrorEntry(page, msg) ==
    JDict([page |-> Get(page, "page", None),
           summary |-> JText(<<Ch("Error: ")>> \o msg)])

\* mutant: the loop keeps the client it began with
BeforeAwaitKeepingClient(page, client) ==
    IF ~IsDict(page)
       THEN Raise("TypeError", <<Ch("string indices must be integers")>>)
    ELSE IF ~HasKey(page, "text") THEN Raise("KeyError", <<Ch("'text'")>>)
    ELSE Return(None)

\* lines 537-546, up to the await: the exception raised before the transport
\* is called, if any.  self._client.chat is evaluated first, page["text"]
\* among the arguments
BeforeAwait(page, client) ==
    IF ~Truthy(client)
       THEN Raise("AttributeError", <<Ch("'NoneType' object has no attribute 'chat'")>>)
    ELSE IF ~IsDict(page)
       THEN Raise("TypeError", <<Ch("string indices must be integers")>>)
    ELSE IF ~HasKey(page, "text") THEN Raise("KeyError", <<Ch("'text'")>>)
    ELSE Return(None)

\* the loop from page i on, as far as it runs without suspending: to the
\* await of a page's transport call, to the return, or to an exception that
\* escapes (the handler's page.get on a page that is no dict)
RECURSIVE SummarizeFrom(_, _, _, _)
SummarizeFrom(pages, i, summaries, client) ==
    IF i > Len(pages) THEN [pc |-> "return", index |-> i, summaries |-> summaries]
    ELSE LET early == BeforeAwait(pages[i], client) IN
         IF early.raised = ""
            THEN [pc |-> "await", index |-> i, summaries |-> summaries]
         ELSE IF ~IsDict(pages[i])
            THEN [pc |-> "raise", index |-> i, summaries |-> summaries]
         ELSE SummarizeFrom(pages, i + 1,
                 Append(summaries, ErrorEntry(pages[i], early.msg)), client)

\* lines 551-561: the entry of a page whose transport call has come back
SummaryEntry(page, response) ==
    IF response.kind = "raise" THEN ErrorEntry(page, response.msg)
    ELSE LET summary_text == IF response.choices # <<>> THEN response.choices[1]
                             ELSE JText(<<>>) IN
         IF ~HasKey(page, "page") THEN ErrorEntry(page, <<Ch("'page'")>>)
         ELSE JDict([page |-> page.d["page"], summary |-> summary_text])

\* the state a run of the loop leaves behind; requests: the transport
\* calls made before it
Advance(run, pages, requests) ==
    /\ frame' = IF run.pc = "await"
                   THEN [pc |-> "await", pages |-> pages, index |-> run.index,
                         summaries |-> run.summaries]
                   ELSE NoFrame
    /\ ret' = CASE run.pc = "await" -> Pending
                [] run.pc = "return" -> Return(JList(run.summaries))
                [] OTHER -> Raise("AttributeError",
                                  <<Ch("object has no attribute 'get'")>>)
    /\ transport' = IF run.pc = "await"
                       THEN Append(requests, Request("summarize_pages", run.index))
                       ELSE requests

SummarizeStart(pages, style) ==
    /\ ~Suspended
    /\ call' = [op |-> "summarize_pages", pages |-> pages, style |-> style,
                responses |-> <<>>, during |-> {},
                was_client |-> _client, was_initialized |-> _initialized,
                disposed |-> WasDisposed]
    /\ IF ~Truthy(_client)
          THEN /\ ret' = NotInitialized
               /\ transport' = <<>>
               /\ frame' = NoFrame
          ELSE Advance(SummarizeFrom(pages, 1, <<>>, _client), pages, <<>>)
    /\ UNCHANGED <<config, _initialized, _client>>

\* the transport call of page frame.index comes back with response
SummarizeResume(response) ==
    /\ Suspended
    /\ call' = [call EXCEPT !.responses =
                   Append(@, [index |-> frame.index, response |-> response])]
    /\ Advance(SummarizeFrom(frame.pages, frame.index + 1,
                  Append(frame.summaries,
                         SummaryEntry(frame.pages[frame.index], response)),
                  _client),
               frame.pages, transport)
    /\ UNCHANGED <<config, _initialized, _client>>

(***************************************************************************)
(* The calls of classify_pages and extract_fields                          *)
(***************************************************************************)
ClassifyPages(pages, labels, system_prompt, response) ==
    /\ ~Suspended
    /\ call' = [op |-> "classify_pages", pages |-> pages, labels |-> labels,
                system_prompt |-> system_prompt, response |-> response,
                was_client |-> _client, was_initialized |-> _initialized,
                disposed |-> WasDisposed]
    /\ LET did == classify_pages(pages, labels, system_prompt, response) IN
          /\ ret' = did.ret
          /\ transport' = did.transport
    /\ UNCHANGED <<config, _initialized, _client, frame>>

ExtractFields(schema, inputs, response) ==
    /\ ~Suspended
    /\ call' = [op |-> "extract_fields", schema |-> schema, inputs |-> inputs,
                response |-> response,
                was_client |-> _client, was_initialized |-> _initialized,
                disposed |-> WasDisposed]
    /\ LET did == extract_fields(schema, inputs, response) IN
          /\ ret' = did.ret
          /\ transport' = did.transport
    /\ UNCHANGED <<config, _initialized, _client, frame>>

(***************************************************************************)
(* The arguments and the transport's responses                             *)
(***************************************************************************)
Page(n, text) == JDict([page |-> JInt(n), text |-> JStr(text)])
PageSample(n, text) == JDict([page |-> JInt(n), textSample |-> JStr(text)])

\* the transport call raising: str(e) may be empty (asyncio.TimeoutError())
TransportFailures ==
    {Raised("ConnectionError", <<Ch("connection refused")>>),
     Raised("TimeoutError", <<>>)}

Pad(n) == [i \in 1..n |-> Ch(" ")]
Padded(bodies) ==
    {Pad(l) \o b \o Pad(r) : l \in 0..MaxPad, r \in 0..MaxPad, b \in bodies}

\* the contents that are no JSON text of one value
Undecodable(sample) ==
    Padded({<<>>, <<Ch("\n\t")>>, <<Ch("not json")>>,
            <<Dumps(sample), Ch("trailing")>>})

\* every response whose first content, when it is JSON, is one of values
Responses(values, sample) ==
    TransportFailures
      \cup {Choices(<<>>), Choices(<<None>>)}
      \cup {Choices(<<JText(c)>>) : c \in Undecodable(sample)}
      \cup {Choices(<<JText(c)>>) : c \in Padded({<<Dumps(sample)>>})}
      \cup {Choices(<<JText(<<Dumps(v)>>)>>) : v \in values}

\* label lists, one of them with a label that is no string
AnyLabelLists == LabelLists \cup {<<Invoice, JInt(7)>>}
SystemPrompts == {None, JText(<<Ch("Classify these pages.")>>)}
SampleBatch == <<PageSample(1, "Revenue"), PageSample(2, "Assets")>>

\* schemas, some with an entry lacking a key, one that is no dict
AnySchemas ==
    Schemas \cup {SchemaOf(<<JDict([name |-> JStr("revenue")])>>),
                  SchemaOf(<<JDict([type |-> JStr("currency")])>>),
                  JStr("{\"fields\": []}")}
SampleInputs == <<Page(1, "Revenue: 1000")>>

\* classification replies: a bare array, or an object with a labels key
ClassReplies(items, n) ==
    {JList(s) : s \in SeqUpTo(items, n)}
      \cup {JDict([labels |-> JList(s)]) : s \in SeqUpTo(items, n)}
      \cup {JDict([labels |-> x]) : x \in NotAnArray}
      \cup {None, JInt(5)}
ClassSample == JDict([labels |-> JList(<<ClassRecord(1, Invoice, JNum(9))>>)])

\* extraction replies
ExtractionReplies(items, n) ==
    {JDict([fields |-> JList(s), errors |-> JList(<<>>)]) : s \in SeqUpTo(items, n)}
      \cup {JDict([errors |-> JList(<<JStr("no year found")>>)]),
            JList(<<Field("revenue", JInt(1000), JNum(9))>>), None}
ExtractionSample ==
    JDict([fields |-> JList(<<Field("revenue", JInt(1000), JNum(9))>>),
           errors |-> JList(<<>>)])

\* page batches of summarize_pages: pages, dicts lacking a key, a string
PageEntries ==
    {Page(1, "Revenue grew."), Page(2, "Assets fell."),
     JDict([page |-> JInt(3)]), JDict([text |-> JStr("No number.")]), JStr("x")}
PageBatches == SeqUpTo(PageEntries, MaxPages)

SummaryResponses ==
    {Raised("ConnectionError", <<Ch("connection refused")>>),
     Choices(<<>>), Choices(<<None>>), Choices(<<JText(<<Ch(" ")>>)>>),
     Choices(<<JText(<<Ch("Revenue grew 5%.")>>)>>)}

(***************************************************************************)
(* Documents and page extraction (mistral_tools.py 262-355)                *)
(***************************************************************************)
MaxDocPages == 3   \* most pages of a document

\* page.get_text() of a page: its first 70 characters and the rest
PageText(head, tail) == [head |-> head, tail |-> tail]

\* the text of page n of the documents
TextOf(n) ==
    CASE n = 1 -> PageText(<<Ch("Revenue: 1000")>>, <<>>)
      [] n = 2 -> PageText(<<Ch(" "), Ch("Balance sheet as of December 31")>>,
                           <<Ch("(characters after the 70th)")>>)
      [] n = 3 -> PageText(<<>>, <<>>)
      [] OTHER -> PageText(<<Ch("Notes")>>, <<>>)

\* a document: the format its URL tells, whether it can be fetched,
\* whether fitz opens it, and its pages
Doc(format, fetched, opens, n) ==
    [format |-> format, fetched |-> fetched, opens |-> opens,
     texts |-> [i \in 1..n |-> TextOf(i)]]

\* pdf[page_num]: fitz counts a negative page number from the end; a
\* document without pages has no page
HasPage(doc, page_num) == page_num < Len(doc.texts) /\ Len(doc.texts) > 0
LoadPage(doc, page_num) == doc.texts[(page_num % Len(doc.texts)) + 1]

get_text(page) == JText(page.head \o page.tail)

\* text[:70].strip() if text else ""
text_sample(page) ==
    IF Truthy(get_text(page)) THEN Strip(JText(page.head)) ELSE JText(<<>>)

\* the loop of _extract_page_samples from page_num on (lines 283-298); an
\* exception ends it with the pages collected so far
RECURSIVE SamplesFrom(_, _, _, _)
SamplesFrom(doc, page_num, end, pages) ==
    IF page_num >= end \/ page_num >= Len(doc.texts) \/ ~HasPage(doc, page_num)
       THEN pages
    ELSE SamplesFrom(doc, page_num + 1, end,
            Append(pages, JDict([page |-> JInt(page_num + 1),
                                 textSample |-> text_sample(LoadPage(doc, page_num))])))

\* what a step inside a try block gives: a value, or an exception
Ok(v) == [ok |-> TRUE, v |-> v]
Failure == [ok |-> FALSE]

\* page_range: {"start": ..., "end": ...}
PageRange(start, end) == JDict([start |-> JInt(start), end |-> JInt(end)])

\* d.get(key, default) as an int: Failure when d is no dict
\* (AttributeError) or the value no int (TypeError in range)
IntArg(d, key, default) ==
    IF ~IsDict(d) THEN Failure
    ELSE IF ~HasKey(d, key) THEN Ok(default)
    ELSE IF d.d[key].t = "int" THEN Ok(d.d[key].i)
    ELSE Failure

\* _extract_page_samples(doc_path, page_range): every exception is caught
\* and the pages collected before it are returned
_extract_page_samples(doc, page_range) ==
    IF ~doc.opens THEN <<>>
    ELSE IF ~Truthy(page_range) THEN SamplesFrom(doc, 0, Len(doc.texts), <<>>)
    ELSE LET start == IntArg(page_range, "start", 1)
             end == IntArg(page_range, "end", Len(doc.texts)) IN
         IF ~start.ok \/ ~end.ok THEN <<>>
         ELSE SamplesFrom(doc, start.v - 1, end.v, <<>>)

\* list(range(a, b + 1))
RangeList(a, b) == [i \in 1..(b - a + 1) |-> JInt(a + i - 1)]

\* the loop of _extract_page_text over page_nums (lines 341-348)
RECURSIVE TextFrom(_, _, _)
TextFrom(doc, page_nums, pages) ==
    IF page_nums = <<>> THEN pages
    ELSE LET page_num == Head(page_nums) IN
         IF ~IsNumber(page_num) THEN pages
         ELSE IF NumOf(page_num) < 10 \/ NumOf(page_num) > 10 * Len(doc.texts)
            THEN TextFrom(doc, Tail(page_nums), pages)
         ELSE IF page_num.t = "num" THEN pages
         ELSE TextFrom(doc, Tail(page_nums),
                 Append(pages, JDict([page |-> page_num,
                                      text |-> get_text(doc.texts[NumOf(page_num) \div 10])])))

\* key in page_filter: a key of a dict, an element of a list, a substring
\* of a str (the JSON text of an object holds its keys); Failure for a
\* value that is no container (TypeError)
Contains(v, key) ==
    CASE v.t = "dict" -> Ok(HasKey(v, key))
      [] v.t = "list" -> Ok(PyIn(JStr(key), v.items))
      [] v.t = "text" -> Ok(\E i \in 1..Len(v.chunks) :
                               \/ v.chunks[i] = Ch(key)
                               \/ /\ v.chunks[i].c = "json"
                                  /\ IsDict(v.chunks[i].v)
                                  /\ HasKey(v.chunks[i].v, key))
      [] OTHER -> Failure

\* lines 328-339: the page numbers asked for, or Failure for an exception
\* (a str or a list indexed by a key, a pages value that is no list)
PageNums(doc, page_filter) ==
    LET all == Ok(RangeList(1, Len(doc.texts))) IN
    IF ~Truthy(page_filter) THEN all
    ELSE IF ~Contains(page_filter, "pages").ok THEN Failure
    ELSE IF Contains(page_filter, "pages").v
       THEN (IF IsDict(page_filter) /\ IsList(page_filter.d["pages"])
                THEN Ok(page_filter.d["pages"].items) ELSE Failure)
    ELSE IF Contains(page_filter, "range").v
       THEN (IF ~IsDict(page_filter) THEN Failure
             ELSE LET start == IntArg(page_filter.d["range"], "start", 1)
                      end == IntArg(page_filter.d["range"], "end", Len(doc.texts)) IN
                  IF ~start.ok \/ ~end.ok THEN Failure
                  ELSE Ok(RangeList(start.v, end.v)))
    ELSE all

\* _extract_page_text(doc_path, page_filter)
_extract_page_text(doc, page_filter) ==
    IF ~doc.opens THEN <<>>
    ELSE LET page_nums == PageNums(doc, page_filter) IN
         IF ~page_nums.ok THEN <<>>
         ELSE TextFrom(doc, page_nums.v, <<>>)

(***************************************************************************)
(* can_process (mistral.py 72-88)                                          *)
(***************************************************************************)
\* Document(url=document_url): format and size are not given
Document(url) == [url |-> url, format |-> None, size |-> None]

\* the format read off the URL
get_document_format(url) == url.format

SupportedFormats == {JStr("pdf"), JStr("txt"), JStr("md"), JStr("docx"), JStr("html")}
MaxFileSize == 100 * 1024 * 1024

\* str.lower() on the formats of the model
Lower(format) ==
    CASE format = JStr("PDF") -> JStr("pdf")
      [] format = JStr("Html") -> JStr("html")
      [] OTHER -> format

\* mutant: the format is compared as it is written
can_processCaseSensitive(self, document) ==
    IF ~self._initialized \/ ~Truthy(self._client) THEN FALSE
    ELSE LET doc_format == IF Truthy(document.format) THEN document.format
                           ELSE get_document_format(document.url) IN
         IF Truthy(doc_format) /\ doc_format \notin SupportedFormats THEN FALSE
         ELSE IF Truthy(document.size) /\ document.size.i > MaxFileSize THEN FALSE
         ELSE TRUE

can_process(self, document) ==
    IF ~self._initialized \/ ~Truthy(self._client) THEN FALSE
    ELSE LET doc_format == IF Truthy(document.format) THEN document.format
                           ELSE get_document_format(document.url) IN
         IF Truthy(doc_format) /\ Lower(doc_format) \notin SupportedFormats THEN FALSE
         ELSE IF Truthy(document.size) /\ document.size.i > MaxFileSize THEN FALSE
         ELSE TRUE

(***************************************************************************)
(* summarize_pages as one call, the transport answering page after page    *)
(***************************************************************************)
\* the loop resumed with each response in turn; Pending when the responses
\* run out before the loop ends
RECURSIVE SummarizeRun(_, _, _, _, _)
SummarizeRun(pages, run, responses, client, requests) ==
    IF run.pc = "await"
       THEN IF responses = <<>>
               THEN Did(Pending, Append(requests, Request("summarize_pages", run.index)))
            ELSE SummarizeRun(pages,
                    SummarizeFrom(pages, run.index + 1,
                       Append(run.summaries,
                              SummaryEntry(pages[run.index], Head(responses))),
                       client),
                    Tail(responses), client,
                    Append(requests, Request("summarize_pages", run.index)))
    ELSE IF run.pc = "return" THEN Did(Return(JList(run.summaries)), requests)
    ELSE Did(Raise("AttributeError", <<Ch("object has no attribute 'get'")>>), requests)

summarize_pages_on(client, pages, style, responses) ==
    IF ~Truthy(client) THEN Did(NotInitialized, <<>>)
    ELSE SummarizeRun(pages, SummarizeFrom(pages, 1, <<>>, client), responses,
                      client, <<>>)

(***************************************************************************)
(* The tool handlers (mistral_tools.py 15-256)                             *)
(***************************************************************************)
\* what a handler did: the provider afterwards, what it returned, the
\* transport calls made, and the calls it made on the provider and on the
\* page extraction, with their arguments
Handled(self, outcome, requests, log) ==
    [self |-> self, ret |-> outcome, transport |-> requests, log |-> log]

\* mutant: the exception's type is not reported
ErrorDictUntyped(e) == JDict([error |-> JText(e.msg)])

\* {"error": str(e), "type": type(e).__name__}
ErrorDict(e) == JDict([error |-> JText(e.msg), type |-> JStr(e.raised)])

NotAvailable(suggestion) ==
    JDict([error |-> JStr("Mistral provider not available"),
           suggestion |-> JStr(suggestion)])

\* provider.config.model (pixtral-12b-2409 unless configured otherwise)
ConfigModel(cfg) == JStr("pixtral-12b-2409")

\* initialize(None): self.config = None, then config.enabled raises
NoConfig == Raise("AttributeError", <<Ch("'NoneType' object has no attribute 'enabled'")>>)

\* mutant: initialize is called whether or not the provider is initialized
LazyInitializeAlways(self, constructed) ==
    [self |-> IF self.config = None THEN self
              ELSE initialize(self, self.config, constructed),
     raised |-> self.config = None,
     log |-> <<[op |-> "initialize", config |-> self.config]>>]

\* lines 45-47: initialize(provider.config) when _initialized is false
LazyInitialize(self, constructed) ==
    IF self._initialized THEN [self |-> self, raised |-> FALSE, log |-> <<>>]
    ELSE [self |-> IF self.config = None THEN self
                   ELSE initialize(self, self.config, constructed),
          raised |-> self.config = None,
          log |-> <<[op |-> "initialize", config |-> self.config]>>]

\* what ', '.join(labels) and `label in labels` see of labels: the items of
\* a list; of a str its characters, here the pieces of its text (of the
\* labels of the model, those of an encoded list are the ones that occur
\* in its JSON text)
Pieces(chunk) ==
    IF chunk.c = "json" /\ IsList(chunk.v)
       THEN <<JStr("[")>>
               \o [i \in 1..Len(chunk.v.items) |->
                     IF chunk.v.items[i].t = "str" THEN chunk.v.items[i]
                     ELSE JStr("?")]
               \o <<JStr("]")>>
    ELSE IF chunk.c = "json" THEN <<JStr("?")>>
    ELSE <<JStr(chunk.c)>>
RECURSIVE Characters(_)
Characters(chunks) ==
    IF chunks = <<>> THEN <<>> ELSE Pieces(Head(chunks)) \o Characters(Tail(chunks))
LabelsSeen(labels) ==
    IF IsList(labels) THEN labels.items ELSE Characters(labels.chunks)

NotFound == Raise("FileNotFoundError", <<Ch("Document not found")>>)

handle_classify_pages(registered, self, doc, labels, page_range, constructed, response) ==
    IF ~registered
       THEN Handled(self, Return(NotAvailable(
               "Enable Mistral provider with DOCSRAY_MISTRAL_ENABLED=true and provide API key")),
               <<>>, <<>>)
    ELSE LET init == LazyInitialize(self, constructed) IN
    IF init.raised THEN Handled(init.self, Return(ErrorDict(NoConfig)), <<>>, init.log)
    ELSE IF ~init.self._initialized
       THEN Handled(init.self,
               Return(JDict([error |-> JStr("Mistral provider failed to initialize"),
                             suggestion |-> JStr("Check DOCSRAY_MISTRAL_API_KEY is set correctly")])),
               <<>>, init.log)
    ELSE IF ~can_process(init.self, Document(doc))
       THEN Handled(init.self,
               Return(JDict([error |-> JStr("Document cannot be processed by Mistral provider"),
                             format |-> Document(doc).format])),
               <<>>, init.log)
    ELSE IF ~doc.fetched
       THEN Handled(init.self, Return(ErrorDict(NotFound)), <<>>, init.log)
    ELSE LET pages == _extract_page_samples(doc, page_range)
             did == classify_pages_on(init.self._client, pages, LabelsSeen(labels),
                                      None, response)
             log == init.log \o
                    <<[op |-> "_extract_page_samples", selector |-> page_range],
                      [op |-> "classify_pages", pages |-> pages, arg |-> labels]>> IN
         IF did.ret.raised # ""
            THEN Handled(init.self, Return(ErrorDict(did.ret)), did.transport, log)
         ELSE Handled(init.self,
                 Return(JDict([labels |-> did.ret.value,
                               total_pages |-> JInt(Len(pages)),
                               model |-> ConfigModel(init.self.config),
                               provider |-> JStr("mistral-ocr")])),
                 did.transport, log)

handle_extract_fields(registered, self, doc, schema, page_filter, constructed, response) ==
    IF ~registered
       THEN Handled(self, Return(NotAvailable(
               "Enable Mistral provider with DOCSRAY_MISTRAL_ENABLED=true")),
               <<>>, <<>>)
    ELSE LET init == LazyInitialize(self, constructed) IN
    IF init.raised THEN Handled(init.self, Return(ErrorDict(NoConfig)), <<>>, init.log)
    ELSE IF ~init.self._initialized
       THEN Handled(init.self,
               Return(JDict([error |-> JStr("Mistral provider failed to initialize"),
                             suggestion |-> JStr("Check DOCSRAY_MISTRAL_API_KEY is set correctly")])),
               <<>>, init.log)
    ELSE IF ~doc.fetched
       THEN Handled(init.self, Return(ErrorDict(NotFound)), <<>>, init.log)
    ELSE LET pages == _extract_page_text(doc, page_filter)
             did == extract_fields_on(init.self._client, schema, pages, response)
             log == init.log \o
                    <<[op |-> "_extract_page_text", selector |-> page_filter],
                      [op |-> "extract_fields", pages |-> pages, arg |-> schema]>> IN
         IF did.ret.raised # ""
            THEN Handled(init.self, Return(ErrorDict(did.ret)), did.transport, log)
         ELSE Handled(init.self,
                 Return(JDict([fields |-> Get(did.ret.value, "fields", JList(<<>>)),
                               errors |-> Get(did.ret.value, "errors", JList(<<>>)),
                               total_pages_processed |-> JInt(Len(pages)),
                               model |-> ConfigModel(init.self.config),
                               provider |-> JStr("mistral-ocr")])),
                 did.transport, log)

handle_summarize(registered, self, doc, style, page_range, constructed, responses) ==
    IF ~registered
       THEN Handled(self, Return(NotAvailable(
               "Enable Mistral provider with DOCSRAY_MISTRAL_ENABLED=true")),
               <<>>, <<>>)
    ELSE LET init == LazyInitialize(self, constructed) IN
    IF init.raised THEN Handled(init.self, Return(ErrorDict(NoConfig)), <<>>, init.log)
    ELSE IF ~init.self._initialized
       THEN Handled(init.self,
               Return(JDict([error |-> JStr("Mistral provider failed to initialize")])),
               <<>>, init.log)
    ELSE IF ~doc.fetched
       THEN Handled(init.self, Return(ErrorDict(NotFound)), <<>>, init.log)
    ELSE LET page_filter == IF Truthy(page_range) THEN JDict([range |-> page_range])
                            ELSE None
             pages == _extract_page_text(doc, page_filter)
             did == summarize_pages_on(init.self._client, pages, style, responses)
             log == init.log \o
                    <<[op |-> "_extract_page_text", selector |-> page_filter],
                      [op |-> "summarize_pages", pages |-> pages, arg |-> style]>> IN
         IF did.ret.raised # ""
            THEN Handled(init.self, Return(ErrorDict(did.ret)), did.transport, log)
         ELSE Handled(init.self,
                 Return(IF did.ret = Pending THEN did.ret.value
                        ELSE JDict([summaries |-> did.ret.value,
                                    total_pages |-> JInt(Len(pages)),
                                    style |-> style,
                                    model |-> JStr("mistral-small-latest"),
                                    provider |-> JStr("mistral-ocr")])),
                 did.transport, log)

\* the calls of the handlers on the provider registered as "mistral-ocr"
\* (registered: the registry is there and holds it)
HandlerReturns(name, args, h) ==
    /\ ~Suspended
    /\ call' = [op |-> name, args |-> args, log |-> h.log,
                was_client |-> _client, was_initialized |-> _initialized,
                disposed |-> WasDisposed]
    /\ config' = h.self.config
    /\ _initialized' = h.self._initialized
    /\ _client' = h.self._client
    /\ ret' = h.ret
    /\ transport' = h.transport
    /\ frame' = frame

HandleClassifyPages(registered, doc, labels, page_range, constructed, response) ==
    HandlerReturns("handle_classify_pages",
       [registered |-> registered, doc |-> doc, labels |-> labels,
        page_range |-> page_range, constructed |-> constructed,
        response |-> response],
       handle_classify_pages(registered, Provider(config, _initialized, _client),
                             doc, labels, page_range, constructed, response))

HandleExtractFields(registered, doc, schema, page_filter, constructed, response) ==
    HandlerReturns("handle_extract_fields",
       [registered |-> registered, doc |-> doc, schema |-> schema,
        page_filter |-> page_filter, constructed |-> constructed,
        response |-> response],
       handle_extract_fields(registered, Provider(config, _initialized, _client),
                             doc, schema, page_filter, constructed, response))

\* responses: the transport's answers to the pages' calls, one for each
\* call made
HandleSummarize(registered, doc, style, page_range, constructed, responses) ==
    LET h == handle_summarize(registered, Provider(config, _initialized, _client),
                              doc, style, page_range, constructed, responses) IN
    /\ h.ret # Pending
    /\ Len(h.transport) = Len(responses)
    /\ HandlerReturns("handle_summarize",
          [registered |-> registered, doc |-> doc, style |-> style,
           page_range |-> page_range, constructed |-> constructed,
           responses |-> responses], h)

\* the documents: PDFs of every length, and one each with another format,
\* with no format, that cannot be fetched, that fitz cannot open
SampleDoc == Doc(JStr("pdf"), TRUE, TRUE, 2)
ToolDocs ==
    {Doc(JStr("pdf"), TRUE, TRUE, n) : n \in 0..MaxDocPages}
      \cup {Doc(JStr("PDF"), TRUE, TRUE, 1), Doc(JStr("exe"), TRUE, TRUE, 1),
            Doc(None, TRUE, TRUE, 1), Doc(JStr("pdf"), FALSE, TRUE, 1),
            Doc(JStr("pdf"), TRUE, FALSE, 1)}

\* json.dumps(v), as a text-based caller sends a structured parameter
Encoded(v) == JText(<<Dumps(v)>>)

\* the parameters, native and JSON-encoded
SampleLabels == JList(<<Invoice, Receipt>>)
ToolLabels == {SampleLabels, Encoded(SampleLabels), JList(<<Invoice, JInt(7)>>)}
ToolPageRanges == {None, PageRange(1, 2), PageRange(2, 5), Encoded(PageRange(1, 2))}
SampleSchema == SchemaOf(<<SchemaField("revenue", "currency")>>)
ToolSchemas == {SampleSchema, Encoded(SampleSchema)}
PagesFilter == JDict([pages |-> JList(<<JInt(1), JInt(3)>>)])
RangeFilter == JDict([range |-> PageRange(1, 2)])
ToolPageFilters ==
    {None, PagesFilter, RangeFilter, Encoded(PagesFilter), Encoded(RangeFilter)}

\* the responses the handlers meet: the transport raising, no choice, and
\* a valid reply
ToolResponses(reply) ==
    {Raised("ConnectionError", <<Ch("connection refused")>>), Choices(<<>>),
     Choices(<<Encoded(reply)>>)}

(***************************************************************************)
(* Spec: the provider through any sequence of calls, with the transport    *)
(* answering from a small set of responses                                 *)
(***************************************************************************)
\* the responses of Spec: one of each kind of failure, a reply that is
\* valid, and replies with one invalid record beside a valid one
FewResponses(replies) ==
    TransportFailures
      \cup {Choices(<<>>), Choices(<<None>>), Choices(<<JText(<<Ch(" ")>>)>>),
            Choices(<<JText(<<Ch("not json")>>)>>)}
      \cup {Choices(<<JText(<<Dumps(v)>>)>>) : v \in replies}

FewClassReplies ==
    {ClassSample,
     JList(<<ClassRecord(1, Invoice, JNum(9)), ClassRecord(2, Invoice, JNum(11))>>),
     JList(<<ClassRecord(1, Invoice, JNum(9)), ClassRecord(4, Invoice, JStr("high"))>>)}

FewExtractionReplies ==
    {ExtractionSample,
     JDict([fields |-> JList(<<Field("revenue", None, JNum(9)),
                               JDict([name |-> JStr("year")])>>)]),
     JList(<<Field("revenue", JInt(1000), JNum(9))>>)}

\* in Spec the batches are of well-formed pages, and a page's transport
\* call raises or returns a summary
FewPageBatches ==
    SeqUpTo({Page(1, "Revenue grew."), Page(2, "Assets fell.")}, MaxPages)
FewSummaryResponses ==
    {Raised("ConnectionError", <<Ch("connection refused")>>),
     Choices(<<JText(<<Ch("Revenue grew 5%.")>>)>>)}

Init ==
    /\ Fresh
    /\ call = [op |-> "__init__"]
    /\ ret = Return(None)
    /\ transport = <<>>
    /\ frame = NoFrame

Next ==
    \/ \E cfg \in Configs, constructed \in BOOLEAN : Initialize(cfg, constructed)
    \/ Dispose
    \/ \E labels \in AnyLabelLists, response \in FewResponses(FewClassReplies) :
          ClassifyPages(SampleBatch, labels, None, response)
    \/ \E schema \in AnySchemas, response \in FewResponses(FewExtractionReplies) :
          ExtractFields(schema, SampleInputs, response)
    \/ \E pages \in FewPageBatches : SummarizeStart(pages, JStr("bullet"))
    \/ \E response \in FewSummaryResponses : SummarizeResume(response)
    \/ \E registered \in BOOLEAN, constructed \in BOOLEAN,
          response \in ToolResponses(ClassSample) :
          HandleClassifyPages(registered, SampleDoc, SampleLabels, None,
                              constructed, response)
    \/ \E registered \in BOOLEAN, constructed \in BOOLEAN,
          response \in ToolResponses(ExtractionSample) :
          HandleExtractFields(registered, SampleDoc, SampleSchema, None,
                              constructed, response)
    \/ \E registered \in BOOLEAN, constructed \in BOOLEAN,
          responses \in SeqUpTo(FewSummaryResponses, MaxDocPages) :
          HandleSummarize(registered, SampleDoc, JStr("bullet"), None,
                          constructed, responses)

Spec == Init /\ [][Next]_vars

(***************************************************************************)
(* SpecReady: one call of an operation on a Ready provider, for every      *)
(* argument and every response of the bounded sets                         *)
(***************************************************************************)
ClassifyRequests ==
    {[op |-> "request", name |-> "classify_pages", pages |-> SampleBatch,
      labels |-> l, system_prompt |-> p, response |-> r] :
        l \in AnyLabelLists, p \in SystemPrompts,
        r \in Responses(ClassReplies(ClassItems, MaxReplyItems), ClassSample)}

ExtractRequests ==
    {[op |-> "request", name |-> "extract_fields", schema |-> sc,
      inputs |-> SampleInputs, response |-> r] :
        sc \in AnySchemas,
        r \in Responses(ExtractionReplies(FieldItems, MaxReplyItems), ExtractionSample)}

SummarizeRequests ==
    {[op |-> "request", name |-> "summarize_pages", pages |-> ps,
      style |-> JStr("bullet")] : ps \in PageBatches}

InitReady ==
    /\ config = Config(TRUE, JStr("test-key"))
    /\ _initialized = TRUE
    /\ _client = Client(config)
    /\ call \in ClassifyRequests \cup ExtractRequests \cup SummarizeRequests
    /\ ret = Pending
    /\ transport = <<>>
    /\ frame = NoFrame

Requested(name) == call.op = "request" /\ call.name = name

ServeClassify ==
    /\ Requested("classify_pages")
    /\ ClassifyPages(call.pages, call.labels, call.system_prompt, call.response)

ServeExtract ==
    /\ Requested("extract_fields")
    /\ ExtractFields(call.schema, call.inputs, call.response)

ServeSummarize ==
    /\ Requested("summarize_pages")
    /\ SummarizeStart(call.pages, call.style)

NextReady ==
    \/ ServeClassify
    \/ ServeExtract
    \/ ServeSummarize
    \/ \E response \in SummaryResponses : SummarizeResume(response)

SpecReady == InitReady /\ [][NextReady]_vars

(***************************************************************************)
(* SpecTools: one call of a tool handler, on every provider that           *)
(* initialize and dispose leave behind, for the parameters passed natively *)
(* and JSON-encoded                                                        *)
(***************************************************************************)
\* the providers reached by initialize and dispose: fresh, after one
\* initialize, after a second one, and each of these disposed
ProviderStates ==
    LET fresh == Provider(None, FALSE, None)
        once == {initialize(fresh, cfg, c) : cfg \in Configs, c \in BOOLEAN}
        twice == {initialize(self, Config(FALSE, None), TRUE) : self \in once}
        live == {fresh} \cup once \cup twice IN
    live \cup {Provider(self.config, FALSE, None) : self \in live}

ToolRequests ==
    {[op |-> "request", name |-> "handle_classify_pages", registered |-> r,
      doc |-> d, labels |-> l, page_range |-> pr] :
        r \in BOOLEAN, d \in ToolDocs, l \in ToolLabels, pr \in ToolPageRanges}
    \cup
    {[op |-> "request", name |-> "handle_extract_fields", registered |-> r,
      doc |-> d, schema |-> sc, page_filter |-> pf] :
        r \in BOOLEAN, d \in ToolDocs, sc \in ToolSchemas, pf \in ToolPageFilters}
    \cup
    {[op |-> "request", name |-> "handle_summarize", registered |-> r,
      doc |-> d, style |-> JStr("bullet"), page_range |-> pr] :
        r \in BOOLEAN, d \in ToolDocs, pr \in ToolPageRanges}

InitTools ==
    /\ \E self \in ProviderStates :
          /\ config = self.config
          /\ _initialized = self._initialized
          /\ _client = self._client
    /\ call \in ToolRequests
    /\ ret = Pending
    /\ transport = <<>>
    /\ frame = NoFrame

ServeHandleClassifyPages ==
    /\ Requested("handle_classify_pages")
    /\ \E constructed \in BOOLEAN, response \in ToolResponses(ClassSample) :
          HandleClassifyPages(call.registered, call.doc, call.labels,
                              call.page_range, constructed, response)

ServeHandleExtractFields ==
    /\ Requested("handle_extract_fields")
    /\ \E constructed \in BOOLEAN, response \in ToolResponses(ExtractionSample) :
          HandleExtractFields(call.registered, call.doc, call.schema,
                              call.page_filter, constructed, response)

ServeHandleSummarize ==
    /\ Requested("handle_summarize")
    /\ \E constructed \in BOOLEAN,
          responses \in SeqUpTo(FewSummaryResponses, MaxDocPages) :
          HandleSummarize(call.registered, call.doc, call.style,
                          call.page_range, constructed, responses)

NextTools ==
    \/ ServeHandleClassifyPages
    \/ ServeHandleExtractFields
    \/ ServeHandleSummarize

SpecTools == InitTools /\ [][NextTools]_vars

(***************************************************************************)
(* SpecPages: the page extraction helpers applied to every document of up  *)
(* to MaxDocPages pages and every page selector of the bounded sets        *)
(***************************************************************************)
\* start and end values: below, within and beyond the document
SelectorValues == (0 - 1)..(MaxDocPages + 1)

\* page_range of _extract_page_samples: none, start and end, one of them
PageRanges ==
    {None}
      \cup {PageRange(a, b) : a, b \in SelectorValues}
      \cup {JDict([start |-> JInt(a)]) : a \in SelectorValues}
      \cup {JDict([end |-> JInt(b)]) : b \in SelectorValues}

\* page_filter of _extract_page_text: none, a list of page numbers, a range
PageFilters ==
    {None}
      \cup {JDict([pages |-> JList(ps)]) :
               ps \in SeqUpTo({JInt(n) : n \in SelectorValues}, 2)}
      \cup {JDict([range |-> r]) : r \in PageRanges \ {None}}

PdfDocs == {Doc(JStr("pdf"), TRUE, TRUE, n) : n \in 0..MaxDocPages}

InitPages ==
    /\ Fresh
    /\ \/ \E d \in PdfDocs, r \in PageRanges :
             call = [op |-> "input", doc |-> d, page_range |-> r]
       \/ \E d \in PdfDocs, f \in PageFilters :
             call = [op |-> "input", doc |-> d, page_filter |-> f]
    /\ ret = Pending
    /\ transport = <<>>
    /\ frame = NoFrame

ExtractPageSamples ==
    /\ call.op = "input" /\ "page_range" \in DOMAIN call
    /\ call' = [call EXCEPT !.op = "_extract_page_samples"]
    /\ ret' = Return(JList(_extract_page_samples(call.doc, call.page_range)))
    /\ UNCHANGED <<config, _initialized, _client, transport, frame>>

ExtractPageText ==
    /\ call.op = "input" /\ "page_filter" \in DOMAIN call
    /\ call' = [call EXCEPT !.op = "_extract_page_text"]
    /\ ret' = Return(JList(_extract_page_text(call.doc, call.page_filter)))
    /\ UNCHANGED <<config, _initialized, _client, transport, frame>>

NextPages == ExtractPageSamples \/ ExtractPageText

SpecPages == InitPages /\ [][NextPages]_vars

(***************************************************************************)
(* _build_summary_prompt (mistral.py 611-622)                              *)
(***************************************************************************)
\* style_instructions: the instruction of each recognized style
Bullet == JStr("bullet")
style_instructions ==
    [bullet |-> Ch("Create a concise bullet-point summary (3-5 points)."),
     paragraph |-> Ch("Write a single paragraph summary (3-4 sentences)."),
     executive |-> Ch("Provide an executive summary highlighting key insights.")]

\* a dict key must be hashable: a list or a dict as style raises TypeError
Hashable(v) == v.t \notin {"list", "dict"}

\* mutant: an unrecognized style is given no instruction
_build_summary_promptWithoutFallback(self, style) ==
    IF ~Hashable(style) THEN Raise("TypeError", <<Ch("unhashable type")>>)
    ELSE Return(JText(
            <<Ch("Summarize the following page content.\n")>>
            \o (IF style.t = "str" /\ style.s \in DOMAIN style_instructions
                   THEN <<style_instructions[style.s]>> ELSE <<>>)
            \o <<Ch("\n\nFocus on factual information and key data points. Avoid speculation.")>>))

\* style_instructions.get(style, style_instructions['bullet']) between the
\* two fixed parts of the prompt; self is not read
_build_summary_prompt(self, style) ==
    IF ~Hashable(style) THEN Raise("TypeError", <<Ch("unhashable type")>>)
    ELSE Return(JText(
            <<Ch("Summarize the following page content.\n"),
              IF style.t = "str" /\ style.s \in DOMAIN style_instructions
                 THEN style_instructions[style.s]
                 ELSE style_instructions[Bullet.s],
              Ch("\n\nFocus on factual information and key data points. Avoid speculation.")>>))

(***************************************************************************)
(* SpecPrompt: _build_summary_prompt of every provider that initialize and *)
(* dispose leave behind, for every style                                   *)
(***************************************************************************)
\* the recognized tags, other strings, and values that are no string
Styles ==
    {Bullet, JStr("paragraph"), JStr("executive"), JStr("Bullet"),
     JStr("detailed"), JStr(""), None, JInt(5), JBool(TRUE), JList(<<>>),
     JList(<<Bullet>>), JDict([style |-> Bullet])}

InitPrompt ==
    /\ \E self \in ProviderStates :
          /\ config = self.config
          /\ _initialized = self._initialized
          /\ _client = self._client
    /\ \E style \in Styles : call = [op |-> "input", style |-> style]
    /\ ret = Pending
    /\ transport = <<>>
    /\ frame = NoFrame

BuildSummaryPrompt ==
    /\ call.op = "input"
    /\ call' = [call EXCEPT !.op = "_build_summary_prompt"]
    /\ ret' = _build_summary_prompt(Provider(config, _initialized, _client),
                                    call.style)
    /\ UNCHANGED <<config, _initialized, _client, transport, frame>>

NextPrompt == BuildSummaryPrompt

SpecPrompt == InitPrompt /\ [][NextPrompt]_vars

(***************************************************************************)
(* SpecCanProcess: can_process on every provider that initialize and       *)
(* dispose leave behind, for documents of every format and size            *)
(***************************************************************************)
\* Document(url=..., format=..., size=...): the format is given, or read
\* off the URL, or unknown; the size is given or unknown
DocFormats ==
    {None, JStr(""), JStr("pdf"), JStr("PDF"), JStr("Html"), JStr("txt"),
     JStr("md"), JStr("docx"), JStr("html"), JStr("xlsx"), JStr("exe")}
UrlFormats == {None, JStr("pdf"), JStr("PDF"), JStr("exe")}
DocSizes ==
    {None, JInt(0), JInt(50 * 1024 * 1024), JInt(MaxFileSize),
     JInt(MaxFileSize + 1), JInt(200 * 1024 * 1024)}
Documents ==
    {[url |-> [format |-> u], format |-> f, size |-> s] :
        u \in UrlFormats, f \in DocFormats, s \in DocSizes}

InitCanProcess ==
    /\ \E self \in ProviderStates :
          /\ config = self.config
          /\ _initialized = self._initialized
          /\ _client = self._client
    /\ \E d \in Documents : call = [op |-> "input", document |-> d]
    /\ ret = Pending
    /\ transport = <<>>
    /\ frame = NoFrame

CanProcess ==
    /\ call.op = "input"
    /\ call' = [call EXCEPT !.op = "can_process"]
    /\ ret' = Return(JBool(can_process(Provider(config, _initialized, _client),
                                       call.document)))
    /\ UNCHANGED <<config, _initialized, _client, transport, frame>>

NextCanProcess == CanProcess

SpecCanProcess == InitCanProcess /\ [][NextCanProcess]_vars

(***************************************************************************)
(* Properties                                                              *)
(***************************************************************************)
Operations == {"classify_pages", "extract_fields", "summarize_pages"}

\* the provider was Ready when the call began
WasReady == call.was_initialized /\ call.was_client # None

\* the call is over (summarize_pages is not suspended)
Finished == frame.pc = "idle"

\* a record the classification contract accepts: an object with page, label
\* and confidence, the label one of the caller's or "other", the confidence
\* a number of [0.0, 1.0]
ValidRecord(item, labels) ==
    /\ item.t = "dict"
    /\ {"page", "label", "confidence"} \subseteq DOMAIN item.d
    /\ \/ \E i \in 1..Len(labels) : labels[i] = item.d["label"]
       \/ item.d["label"] = JStr("other")
    /\ item.d["confidence"].t \in {"num", "int"}
    /\ 0 <= NumOf(item.d["confidence"])
    /\ NumOf(item.d["confidence"]) <= 10

ValidRecords(items, labels) ==
    LET Valid(item) == ValidRecord(item, labels) IN SelectSeq(items, Valid)

\* C1: for every array of candidate records and every label list,
\* _validate_classification_result returns exactly the subsequence of the
\* valid records, in input order
C1_ExactSubsequence ==
    (call.op = "_validate_classification_result" /\ call.result.t = "list")
       => ret = Return(JList(ValidRecords(call.result.items, call.labels)))

\* the text is the JSON text of one value, and that value
IsJson(chunks) ==
    \E i \in 1..Len(chunks) :
       /\ chunks[i].c = "json"
       /\ \A j \in 1..Len(chunks) : j # i => chunks[j] \in Whitespace
JsonOf(chunks) == chunks[CHOOSE i \in 1..Len(chunks) : chunks[i].c = "json"].v

\* the transport returned content that is the JSON text of an array
RepliedArray ==
    /\ transport # <<>>
    /\ call.response.kind = "ok"
    /\ call.response.choices # <<>>
    /\ call.response.choices[1].t = "text"
    /\ IsJson(call.response.choices[1].chunks)
    /\ JsonOf(call.response.choices[1].chunks).t = "list"

\* every valid record of items is among the records returned
AllValidReturned(items, labels) ==
    /\ ret.raised = ""
    /\ ret.value.t = "list"
    /\ \A i \in 1..Len(items) :
          ValidRecord(items[i], labels)
             => \E j \in 1..Len(ret.value.items) : ret.value.items[j] = items[i]

\* C2: an invalid record of any kind is dropped without the validator
\* raising, and every valid record of the same array is in the result of
\* _validate_classification_result and of classify_pages
C2_PerRecordIsolation ==
    /\ (call.op = "_validate_classification_result" /\ call.result.t = "list")
          => AllValidReturned(call.result.items, call.labels)
    /\ (call.op = "classify_pages" /\ RepliedArray)
          => AllValidReturned(JsonOf(call.response.choices[1].chunks).items,
                              call.labels)

\* C3: a provider that is not Ready (_initialized is false) rejects
\* classify_pages, extract_fields and summarize_pages with the "not
\* initialized" error and makes no transport call
C3_NotReadyRejects ==
    (call.op \in Operations /\ ~call.was_initialized)
       => /\ ret = Raise("RuntimeError", <<Ch("Mistral client not initialized")>>)
          /\ transport = <<>>

\* the cases of a response that cannot be decoded: the call raised, no
\* choice, null content, blank content, content that is not JSON
Undecoded(response) ==
    \/ response.kind = "raise"
    \/ /\ response.kind = "ok"
       /\ \/ response.choices = <<>>
          \/ response.choices[1] = None
          \/ /\ response.choices[1].t = "text"
             /\ ~IsJson(response.choices[1].chunks)

BlankContent(response) ==
    /\ response.kind = "ok"
    /\ response.choices # <<>>
    /\ response.choices[1].t = "text"
    /\ response.choices[1].chunks # <<>>
    /\ \A i \in 1..Len(response.choices[1].chunks) :
          response.choices[1].chunks[i] \in Whitespace

\* C4: on a Ready provider classify_pages returns [] and does not raise when
\* the transport raises or its response has no choice, null content, blank
\* content or content that is not JSON
C4_ClassifyDegrades ==
    (call.op = "classify_pages" /\ WasReady /\ transport # <<>>
        /\ Undecoded(call.response))
       => ret = Return(JList(<<>>))

C4_Witness ==
    /\ call.op = "classify_pages" /\ WasReady /\ transport # <<>>
    /\ BlankContent(call.response)
    /\ ret = Return(JList(<<>>))

\* the result is {fields: [], errors: [one message]}
OneError ==
    /\ ret.raised = ""
    /\ ret.value.t = "dict"
    /\ DOMAIN ret.value.d = {"fields", "errors"}
    /\ ret.value.d["fields"] = JList(<<>>)
    /\ ret.value.d["errors"].t = "list"
    /\ Len(ret.value.d["errors"].items) = 1
TheError == ret.value.d["errors"].items[1]

NonEmpty(msg) == IF msg.t = "text" THEN msg.chunks # <<>> ELSE msg.s # ""
MentionsJSON(msg) ==
    /\ msg.t = "text"
    /\ \E i \in 1..Len(msg.chunks) :
          msg.chunks[i] = Ch("Failed to parse Mistral response as JSON: ")

ExtractUndecoded ==
    /\ call.op = "extract_fields" /\ WasReady /\ transport # <<>>
    /\ Undecoded(call.response)

\* C5 as claimed: on a Ready provider extract_fields returns fields [] and
\* errors holding exactly one non-empty message in each case of C4, the
\* message mentioning JSON when the content is not JSON
C5_ExtractDegrades ==
    ExtractUndecoded
       => /\ OneError
          /\ NonEmpty(TheError)
          /\ (call.response.kind = "ok" /\ call.response.choices # <<>>
                 /\ Truthy(call.response.choices[1])
                 /\ ~BlankContent(call.response))
                => MentionsJSON(TheError)

\* C5 as amended: the one message is non-empty except when the transport
\* call raised, where it is str(e) of the exception, which may be empty
C5_ExtractDegradesOrEchoes ==
    ExtractUndecoded
       => /\ OneError
          /\ IF call.response.kind = "raise"
                THEN TheError = JText(call.response.msg)
                ELSE NonEmpty(TheError)
          /\ (call.response.kind = "ok" /\ call.response.choices # <<>>
                 /\ Truthy(call.response.choices[1])
                 /\ ~BlankContent(call.response))
                => MentionsJSON(TheError)

C5_Witness ==
    /\ ExtractUndecoded
    /\ call.response.kind = "raise"
    /\ call.response.msg = <<>>
    /\ ret = Return(JDict([fields |-> JList(<<>>), errors |-> JList(<<JText(<<>>)>>)]))

\* the summary begins with "Error:"
IsErrorSummary(entry) ==
    /\ entry.d["summary"].t = "text"
    /\ entry.d["summary"].chunks # <<>>
    /\ entry.d["summary"].chunks[1] = Ch("Error: ")

SummarizeReturned ==
    /\ call.op = "summarize_pages" /\ WasReady /\ Finished
    /\ \A i \in 1..Len(call.pages) : call.pages[i].t = "dict"

\* C6: summarize_pages on a Ready provider returns one entry per page dict,
\* the i-th with the page number of the i-th page; the entry of a page whose
\* transport call raised has a summary beginning with "Error:", the entry
\* of a page (with page and text) whose call returned a choice has its
\* content, whatever happened to the other pages
C6_OneEntryPerPage ==
    SummarizeReturned
       => /\ ret.raised = ""
          /\ ret.value.t = "list"
          /\ Len(ret.value.items) = Len(call.pages)
          /\ \A i \in 1..Len(call.pages) :
                /\ ret.value.items[i].t = "dict"
                /\ ret.value.items[i].d["page"] =
                      (IF "page" \in DOMAIN call.pages[i].d
                          THEN call.pages[i].d["page"] ELSE None)
          /\ \A k \in 1..Len(call.responses) :
                LET r == call.responses[k].response
                    page == call.pages[call.responses[k].index]
                    entry == ret.value.items[call.responses[k].index] IN
                /\ r.kind = "raise" => IsErrorSummary(entry)
                /\ (r.kind = "ok" /\ r.choices # <<>> /\ "page" \in DOMAIN page.d)
                      => entry.d["summary"] = r.choices[1]

\* two pages, the first summarized, the transport raising for the second
C6_Witness ==
    /\ SummarizeReturned
    /\ Len(call.pages) = 2
    /\ Len(call.responses) = 2
    /\ call.responses[1].response.kind = "ok"
    /\ call.responses[1].response.choices # <<>>
    /\ call.responses[2].response.kind = "raise"
    /\ ret.raised = ""
    /\ ret.value.items[1].d["summary"] = JText(<<Ch("Revenue grew 5%.")>>)
    /\ IsErrorSummary(ret.value.items[2])

\* C7: on a Ready provider no call of classify_pages, extract_fields or
\* summarize_pages lets an exception escape, whatever its arguments and
\* whatever the transport does
C7_NothingEscapes ==
    (call.op \in Operations /\ WasReady) => ret.raised = ""

\* an entry the extraction contract accepts: an object with name, value and
\* confidence
CompleteField(entry) ==
    entry.t = "dict" /\ {"name", "value", "confidence"} \subseteq DOMAIN entry.d

\* C8: for an object-shaped reply _validate_extraction_result returns as
\* fields exactly the entries of the reply's fields array that are objects
\* with name, value and confidence, in order and unmodified (null values
\* and confidences outside [0,1] kept, names not matched against the
\* schema); a fields key that is absent or no array gives empty fields
C8_FieldsAreCompleteEntries ==
    (call.op = "_validate_extraction_result" /\ call.result.t = "dict")
       => /\ ret.raised = ""
          /\ ret.value.t = "dict"
          /\ ret.value.d["fields"] =
                (IF "fields" \in DOMAIN call.result.d
                       /\ call.result.d["fields"].t = "list"
                    THEN JList(SelectSeq(call.result.d["fields"].items, CompleteField))
                    ELSE JList(<<>>))

\* a null value, a confidence of 1.5 under a name the schema does not have,
\* and an entry without confidence: the first two are returned
C8_Witness ==
    /\ call.op = "_validate_extraction_result"
    /\ call.schema = SchemaOf(<<SchemaField("revenue", "currency")>>)
    /\ call.result.t = "dict"
    /\ "fields" \in DOMAIN call.result.d
    /\ call.result.d["fields"] =
          JList(<<Field("revenue", None, JNum(9)), Field("unknown", JStr("x"), JNum(15)),
                  JDict([name |-> JStr("revenue"), value |-> JInt(1)])>>)
    /\ ret.value.d["fields"] =
          JList(<<Field("revenue", None, JNum(9)), Field("unknown", JStr("x"), JNum(15))>>)

\* C9: for a reply that is no object _validate_extraction_result returns
\* {fields: [], errors: ["Invalid result format: expected dict"]}
C9_NotAnObject ==
    (call.op = "_validate_extraction_result" /\ call.result.t # "dict")
       => ret = Return(JDict([fields |-> JList(<<>>),
                              errors |-> JList(<<JStr("Invalid result format: expected dict")>>)]))

\* an array holding a complete field is rejected as a whole
C9_Witness ==
    /\ call.op = "_validate_extraction_result"
    /\ call.result = JList(<<Field("revenue", JInt(1000), JNum(9))>>)
    /\ ret.value.d["fields"] = JList(<<>>)
    /\ ret.value.d["errors"] = JList(<<JStr("Invalid result format: expected dict")>>)

Ready == _initialized /\ _client # None

\* C10: after initialize(config) the provider is Ready exactly when the
\* config is enabled, its api_key is non-empty and the client was
\* constructed; with a disabled config or no API key it is not Ready
C10_ReadyIffConfigured ==
    call.op = "initialize"
       => /\ Ready <=> /\ call.config.enabled = JBool(TRUE)
                       /\ call.config.api_key \notin {None, JStr("")}
                       /\ call.constructed
          /\ (call.config.enabled = JBool(FALSE)
                \/ call.config.api_key \in {None, JStr("")}) => ~Ready

\* a Ready provider initialized again with a config without API key
C10_Witness ==
    /\ call.op = "initialize"
    /\ call.was_initialized /\ call.was_client # None
    /\ call.config.enabled = JBool(TRUE)
    /\ call.config.api_key = None
    /\ ~Ready

\* the outcome of an operation on a provider that was never initialized:
\* the "not initialized" error, no transport call, nothing suspended
Rejected(outcome, requests, running) ==
    /\ outcome = [raised |-> "RuntimeError",
                  msg |-> <<Ch("Mistral client not initialized")>>,
                  value |-> None]
    /\ requests = <<>>
    /\ running.pc = "idle"

\* the step is a dispose made while summarize_pages is suspended
DisposedDuring ==
    /\ call.op = "summarize_pages" /\ call'.op = "summarize_pages"
    /\ \E d \in call'.during \ call.during : d.op = "dispose"

\* C11: after dispose, from any state, no client is held and _initialized
\* is false; classify_pages, extract_fields and summarize_pages called next
\* reject as they do on a provider fresh from the constructor; dispose on a
\* provider without client and not initialized changes nothing
C11_DisposeClears ==
    [][/\ (call'.op = "dispose" \/ DisposedDuring)
             => (_client' = None /\ ~_initialized')
       /\ (call'.op = "dispose" /\ _client = None /\ ~_initialized)
             => (_client' = _client /\ _initialized' = _initialized
                   /\ config' = config)
       /\ (call.op \in {"dispose", "__init__"} /\ call'.op \in Operations)
             => Rejected(ret', transport', frame')]_vars

\* a Ready provider has been disposed
C11_Witness ==
    /\ call.op = "dispose"
    /\ call.was_initialized /\ call.was_client # None
    /\ ~Ready

(***************************************************************************)
(* coerce_parameter (spec 4.1; imported from docsray.tools.mistral_tools   *)
(* by tests/unit/test_mistral_tools.py and verify_mistral_fix.py)          *)
(***************************************************************************)
\* an object: its identity and its value (`result is input_dict` compares
\* identities, `result == input_dict` values)
Obj(id, v) == [id |-> id, v |-> v]

\* an object the call created
Allocated(v) == Obj("new", v)

\* isinstance(value, expected_type), expected_type being dict or list
IsInstance(v, target_kind) == v.t = target_kind

\* mutant: the string is never parsed
coerce_parameterUnparsed(value, target_kind) == Return(value)

\* mutant: the parsed value is returned whatever its type
coerce_parameterAnyKind(value, target_kind) ==
    IF value.v.t = "text" /\ json_loads(value.v).raised = ""
       THEN Return(Allocated(json_loads(value.v).value))
    ELSE Return(value)

\* mutant: a value of the target kind is copied
coerce_parameterCopying(value, target_kind) ==
    IF IsInstance(value.v, target_kind) THEN Return(Allocated(value.v))
    ELSE IF value.v.t = "text"
       THEN LET parsed == json_loads(value.v) IN
            IF parsed.raised = "" /\ IsInstance(parsed.value, target_kind)
               THEN Return(Allocated(parsed.value))
            ELSE Return(value)
    ELSE Return(value)

\* coerce_parameter(value, expected_type): None and a value of the target
\* kind are returned as they are; a string is parsed as JSON and the parsed
\* value returned when it is of the target kind; a string that does not
\* parse, or parses to another kind, is returned unchanged
coerce_parameter(value, target_kind) ==
    IF value.v = None THEN Return(value)
    ELSE IF IsInstance(value.v, target_kind) THEN Return(value)
    ELSE IF value.v.t = "text"
       THEN LET parsed == json_loads(value.v) IN
            IF parsed.raised = "" /\ IsInstance(parsed.value, target_kind)
               THEN Return(Allocated(parsed.value))
            ELSE Return(value)
    ELSE Return(value)

JsonDicts ==
    Schemas \cup
    {PageRange(1, 5), JDict([start |-> JInt(2)]), JDict(<<>>),
     JDict([pages |-> JList(<<JInt(1), JInt(30), JInt(31), JInt(32)>>)]),
     JDict([range |-> PageRange(1, 5)])}

JsonLists ==
    {JList(l) : l \in LabelLists} \cup
    {JList(<<>>), JList(<<JInt(1), JInt(30), JInt(31), JInt(32)>>),
     JList(<<JList(<<Invoice>>), PageRange(1, 5)>>)}

JsonScalars == {None, JBool(TRUE), JInt(5), JNum(15), Invoice}

\* strings that are JSON text, and strings that are not
JsonTexts ==
    {JText(c) : c \in Padded({<<Dumps(v)>> :
                                 v \in JsonDicts \cup JsonLists \cup JsonScalars})}
NonJsonTexts ==
    {JText(c) : c \in Padded({<<>>, <<Ch("{invalid json}")>>,
                              <<Ch("{'single': 'quotes'}")>>,
                              <<Ch("[unclosed list")>>,
                              <<Dumps(PageRange(1, 5)), Ch("trailing")>>})}

CoerceValues ==
    JsonTexts \cup NonJsonTexts \cup JsonDicts \cup JsonLists
      \cup {None, JBool(FALSE), JInt(5)}

TargetKinds == {"dict", "list"}

InitCoerce ==
    /\ Fresh
    /\ \E v \in CoerceValues, id \in {"a", "b"}, k \in TargetKinds :
          call = [op |-> "input", value |-> Obj(id, v), target_kind |-> k]
    /\ ret = Pending
    /\ transport = <<>>
    /\ frame = NoFrame

CoerceParameter ==
    /\ call.op = "input"
    /\ call' = [call EXCEPT !.op = "coerce_parameter"]
    /\ ret' = coerce_parameter(call.value, call.target_kind)
    /\ UNCHANGED <<config, _initialized, _client, transport, frame>>

NextCoerce == CoerceParameter

SpecCoerce == InitCoerce /\ [][NextCoerce]_vars

Coerced == call.op = "coerce_parameter"

\* C12: a string that is the JSON text of a value of the target kind is
\* coerced to that value, nested structures included
C12_ParsesMatchingJson ==
    (Coerced /\ call.value.v.t = "text" /\ IsJson(call.value.v.chunks)
       /\ JsonOf(call.value.v.chunks).t = call.target_kind)
       => /\ ret.raised = ""
          /\ ret.value.v = JsonOf(call.value.v.chunks)

\* the JSON text of a schema, an object holding an array of objects
C12_Witness ==
    /\ Coerced
    /\ call.target_kind = "dict"
    /\ call.value.v = JText(<<Ch(" "),
                              Dumps(SchemaOf(<<SchemaField("revenue", "currency")>>))>>)
    /\ ret.value.v = SchemaOf(<<SchemaField("revenue", "currency")>>)

\* C13: a string that is no JSON text (the empty string included), or the
\* JSON text of a value that is not of the target kind, is returned
\* unchanged, and nothing is raised
C13_OtherStringsUnchanged ==
    (Coerced /\ call.value.v.t = "text"
       /\ (~IsJson(call.value.v.chunks)
             \/ JsonOf(call.value.v.chunks).t # call.target_kind))
       => /\ ret.raised = ""
          /\ ret.value = call.value

\* the JSON text of an array, a dict being asked for
C13_Witness ==
    /\ Coerced
    /\ call.target_kind = "dict"
    /\ call.value.v = JText(<<Dumps(JList(<<Invoice, Receipt>>))>>)
    /\ ret = Return(call.value)

\* C14: an input that is no string is returned as the same object: a value
\* of the target kind is not copied, None comes back as None
C14_IdentityOnNonStrings ==
    (Coerced /\ call.value.v.t # "text")
       => /\ ret.raised = ""
          /\ ret.value.id = call.value.id
          /\ ret.value.v = call.value.v

\* a dict passed where a dict is expected
C14_Witness ==
    /\ Coerced
    /\ call.target_kind = "dict"
    /\ call.value = Obj("a", PageRange(1, 5))
    /\ ret.value.id = "a"

(***************************************************************************)
(* Properties of the tool handlers                                         *)
(***************************************************************************)
Handlers == {"handle_classify_pages", "handle_extract_fields", "handle_summarize"}

\* the provider the handler found
Found == Provider(config, call.was_initialized, call.was_client)

\* the value a JSON-encoded parameter stands for; a native one as it is
Decoded(v) == IF v.t = "text" /\ IsJson(v.chunks) THEN JsonOf(v.chunks) ELSE v
IsEncoded(v) == v.t = "text" /\ IsJson(v.chunks)

\* the calls of the log made on op
CallsOf(op) == {i \in 1..Len(call.log) : call.log[i].op = op}

\* C15: a handler given labels, schema, page_range or page_filter as a
\* JSON-encoded string calls the provider operation and the page extraction
\* with the parsed list or dict, and returns what it returns for the native
\* structure
C15_EncodedAsNative ==
    /\ call.op = "handle_classify_pages"
          => /\ \A i \in CallsOf("classify_pages") :
                   call.log[i].arg = Decoded(call.args.labels)
             /\ \A i \in CallsOf("_extract_page_samples") :
                   call.log[i].selector = Decoded(call.args.page_range)
             /\ ret = handle_classify_pages(call.args.registered, Found,
                         call.args.doc, Decoded(call.args.labels),
                         Decoded(call.args.page_range), call.args.constructed,
                         call.args.response).ret
    /\ call.op = "handle_extract_fields"
          => /\ \A i \in CallsOf("extract_fields") :
                   call.log[i].arg = Decoded(call.args.schema)
             /\ \A i \in CallsOf("_extract_page_text") :
                   call.log[i].selector = Decoded(call.args.page_filter)
             /\ ret = handle_extract_fields(call.args.registered, Found,
                         call.args.doc, Decoded(call.args.schema),
                         Decoded(call.args.page_filter), call.args.constructed,
                         call.args.response).ret
    /\ call.op = "handle_summarize"
          => \A i \in CallsOf("_extract_page_text") :
                call.log[i].selector # None
                   => call.log[i].selector.d["range"] = Decoded(call.args.page_range)

\* an initialize made by the handler: at most one, with the stored config
AtMostOneAttempt ==
    /\ Cardinality(CallsOf("initialize")) <= 1
    /\ \A i \in CallsOf("initialize") : call.log[i].config = config

\* no operation of the provider was invoked
NoOperation ==
    /\ \A i \in 1..Len(call.log) : call.log[i].op \notin Operations
    /\ transport = <<>>

IsErrorAndType(v, type) ==
    /\ DOMAIN v.d = {"error", "type"}
    /\ v.d["type"] = JStr(type)
    /\ v.d["error"].t = "text"

\* the handler got as far as fetching the document
ReachedFetch ==
    /\ call.args.registered /\ _initialized
    /\ call.op = "handle_classify_pages"
          => call.args.doc.format \in {None, JStr("pdf"), JStr("PDF")}

ZeroChoices(response) == response.kind = "ok" /\ response.choices = <<>>

\* classify_pages or extract_fields, Ready, got a response without choice
\* or with blank content
BlankOrNoChoice ==
    /\ call.op \in {"classify_pages", "extract_fields"}
    /\ WasReady /\ transport # <<>>
    /\ ZeroChoices(call.response) \/ BlankContent(call.response)

\* C17 as claimed: for whitespace-only content classify_pages and
\* extract_fields return exactly the value they return for a response with
\* zero choices
C17_BlankAsNoChoices ==
    BlankOrNoChoice
       => ret = IF call.op = "classify_pages" THEN Return(JList(<<>>))
                ELSE Return(JDict([fields |-> JList(<<>>),
                        errors |-> JList(<<JStr("Mistral API returned empty response (no choices)")>>)]))

\* C17 as amended: classify_pages returns [] in both cases; extract_fields
\* returns fields [] and one error in both, the message naming the case
C17_BlankDegradesAlike ==
    BlankOrNoChoice
       => IF call.op = "classify_pages" THEN ret = Return(JList(<<>>))
          ELSE /\ OneError
               /\ TheError =
                     IF ZeroChoices(call.response)
                        THEN JStr("Mistral API returned empty response (no choices)")
                        ELSE JStr("Mistral API returned whitespace-only content")

\* extract_fields met content of blanks, tab and newline
C17_Witness ==
    /\ BlankOrNoChoice
    /\ call.op = "extract_fields"
    /\ call.response = Choices(<<JText(<<Ch(" "), Ch("\n\t")>>)>>)
    /\ TheError = JStr("Mistral API returned whitespace-only content")

\* the response of a page's transport call cannot be decoded: no choice,
\* null content, blank content
NoSummary(response) ==
    \/ ZeroChoices(response)
    \/ /\ response.kind = "ok" /\ response.choices # <<>>
       /\ response.choices[1] = None
    \/ BlankContent(response)

\* C18: in summarize_pages the entry of a page whose response has no
\* choice, or null or blank content, has an error text as summary, and the
\* entries of the other pages are those of their own responses
C18_DecodeFailureIsErrorText ==
    SummarizeReturned
       => /\ ret.raised = ""
          /\ Len(ret.value.items) = Len(call.pages)
          /\ \A k \in 1..Len(call.responses) :
                LET r == call.responses[k].response
                    page == call.pages[call.responses[k].index]
                    entry == ret.value.items[call.responses[k].index] IN
                /\ NoSummary(r) => IsErrorSummary(entry)
                /\ (r.kind = "ok" /\ ~NoSummary(r) /\ "page" \in DOMAIN page.d)
                      => entry.d["summary"] = r.choices[1]

(***************************************************************************)
(* Properties of the lifecycle                                             *)
(***************************************************************************)
\* the step is a call made while summarize_pages is suspended, and a call
\* of name is noted for the page in flight
During(name) ==
    /\ call.op = "summarize_pages" /\ call'.op = "summarize_pages"
    /\ frame' = frame /\ ret' = ret /\ transport' = transport
    /\ \E d \in call'.during : d.op = name /\ d.index = frame.index

InitializedDuring == During("initialize")

\* the step is a call of dispose
DisposeStep == call'.op = "dispose" \/ During("dispose")

\* the step is a tool handler's call that ran initialize(provider.config)
LazyInitializeStep ==
    /\ call'.op \in Handlers
    /\ \E i \in 1..Len(call'.log) : call'.log[i].op = "initialize"

\* C19 (as stated): the lifecycle only moves forward: a provider that has
\* been disposed is never Ready again, and a Ready provider leaves Ready
\* only through dispose
C19_ForwardOnly ==
    [][/\ call'.disposed => ~Ready'
       /\ (Ready /\ ~Ready') => DisposeStep]_vars

\* C19 (amended): a provider becomes Ready only by initialize, called
\* directly or by a tool handler on a provider that is not initialized, with
\* an enabled configuration that holds an API key and a client that is
\* constructed, whether or not it has been disposed; a Ready provider leaves
\* Ready only through dispose or through an initialize that does not reach
\* Ready, and never through a tool handler
C19_ReadyOnlyByInitialize ==
    [][/\ (~Ready /\ Ready')
            => \/ /\ call'.op = "initialize"
                  /\ ReachesConstructor(call'.config) /\ call'.constructed
               \/ /\ LazyInitializeStep
                  /\ ~_initialized /\ config # None
                  /\ ReachesConstructor(config) /\ call'.args.constructed
               \/ InitializedDuring
       /\ (Ready /\ ~Ready')
            => \/ DisposeStep
               \/ /\ call'.op = "initialize"
                  /\ ~(ReachesConstructor(call'.config) /\ call'.constructed)
               \/ InitializedDuring
       /\ (call'.op \in Handlers /\ Ready) => Ready']_vars

\* a tool handler has made a disposed provider Ready again
C19_Witness ==
    /\ call.op \in Handlers
    /\ call.disposed /\ ~call.was_initialized /\ call.was_client = None
    /\ Ready

\* C20: after any sequence of initialize and dispose calls on a fresh
\* provider, _initialized is true exactly when a client is held, so the
\* operations that gate on _initialized and those that gate on _client
\* accept and reject in the same states
C20_InitializedIffClient ==
    call.op \in {"__init__", "initialize", "dispose"}
       => (_initialized <=> _client # None)

(***************************************************************************)
(* Properties of the transport calls                                       *)
(***************************************************************************)
\* the pages of the batch whose transport call can be made: dicts with a
\* text (mistral.py 544: page['text'] is read among the arguments)
WithText(pages) ==
    {i \in 1..Len(pages) : pages[i].t = "dict" /\ "text" \in DOMAIN pages[i].d}

\* the indices of the transport calls, in the order they were made
Indices == [k \in 1..Len(transport) |-> transport[k].index]

\* C21: on a Ready provider classify_pages and extract_fields make one
\* transport call per invocation that reaches the transport, and never
\* more, whatever the response; summarize_pages makes one call per page
\* with a text, in input order, each started only after the response of the
\* one before it is in hand, and none is made again
C21_OneCallEach ==
    /\ (call.op \in {"classify_pages", "extract_fields"} /\ WasReady)
          => /\ Len(transport) <= 1
             /\ (ret.raised = "" => transport = <<Request(call.op, 0)>>)
    /\ (call.op = "summarize_pages" /\ WasReady)
          => /\ \A k \in 1..Len(transport) :
                   /\ transport[k].op = "summarize_pages"
                   /\ transport[k].index \in WithText(call.pages)
             /\ \A j, k \in 1..Len(transport) :
                   j < k => transport[j].index < transport[k].index
             /\ Len(transport) = Len(call.responses)
                                   + (IF Suspended THEN 1 ELSE 0)
             /\ \A k \in 1..Len(call.responses) :
                   call.responses[k].index = transport[k].index
             /\ (Finished /\ ret.raised = "")
                   => {Indices[k] : k \in 1..Len(transport)}
                         = WithText(call.pages)
             /\ (Finished /\ WithText(call.pages) = 1..Len(call.pages))
                   => Indices = [k \in 1..Len(call.pages) |-> k]

\* two pages summarized with two calls, the first of which raised
C21_Witness ==
       /\ call.op = "summarize_pages" /\ WasReady /\ Finished
       /\ Len(call.pages) = 2
       /\ Indices = <<1, 2>>
       /\ call.responses[1].response.kind = "raise"
       /\ call.responses[2].response.kind = "ok"

(***************************************************************************)
(* Properties of dispose during summarize_pages                            *)
(***************************************************************************)
\* the pages in flight when name was called during summarize_pages
PagesDuring(name) == {d.index : d \in {e \in call.during : e.op = name}}

\* summarize_pages has returned or raised, dispose was called while it was
\* suspended at a page, and initialize was not called from that page on
DisposedMidCall ==
    /\ call.op = "summarize_pages" /\ WasReady /\ Finished
    /\ PagesDuring("dispose") # {}
    /\ \A d \in PagesDuring("dispose"), i \in PagesDuring("initialize") : i < d

\* the page in flight at the first dispose
FirstDisposed == CHOOSE d \in PagesDuring("dispose") :
                    \A e \in PagesDuring("dispose") : d <= e

\* C22: when dispose runs while summarize_pages is suspended at a page's
\* transport call, summarize_pages raises nothing and returns one entry per
\* page in input order; the page in flight has the entry of its own
\* response, and every later page has a summary beginning with "Error:"
\* and no transport call
C22_DisposeMidSummarize ==
    DisposedMidCall
       => /\ ret.raised = ""
          /\ Len(ret.value.items) = Len(call.pages)
          /\ \A i \in 1..Len(call.pages) :
                ret.value.items[i].d["page"] = call.pages[i].d["page"]
          /\ \E k \in 1..Len(call.responses) :
                /\ call.responses[k].index = FirstDisposed
                /\ ret.value.items[FirstDisposed] =
                      SummaryEntry(call.pages[FirstDisposed],
                                   call.responses[k].response)
          /\ \A i \in 1..Len(call.pages) :
                i > FirstDisposed
                   => /\ IsErrorSummary(ret.value.items[i])
                      /\ \A k \in 1..Len(transport) : transport[k].index # i

\* dispose ran during the first of two pages, whose call then returned a
\* summary; the second page has an Error entry
C22_Witness ==
    /\ DisposedMidCall
    /\ Len(call.pages) = 2
    /\ FirstDisposed = 1
    /\ call.responses[1].response.kind = "ok"
    /\ ret.value.items[1].d["summary"] = JText(<<Ch("Revenue grew 5%.")>>)
    /\ IsErrorSummary(ret.value.items[2])
    /\ Len(transport) = 1

(***************************************************************************)
(* Properties of the classification validator                              *)
(***************************************************************************)
Validated == call.op = "_validate_classification_result"

\* C23: for an object whose labels key is absent or holds a value that is
\* no array (null, a number, a string, an object),
\* _validate_classification_result returns the empty list and does not
\* raise
C23_NoLabelsArrayIsEmpty ==
    (/\ Validated
     /\ call.result.t = "dict"
     /\ ("labels" \notin DOMAIN call.result.d \/ call.result.d["labels"].t # "list"))
       => ret = Return(JList(<<>>))

\* C24: _validate_classification_result gives for a bare array A what it
\* gives for the object {"labels": A}, and for the object what it gives for
\* the array, whatever the label list
C24_BareArrayAsLabels ==
    /\ (Validated /\ call.result.t = "list")
          => ret = _validate_classification_result(
                      JDict([labels |-> call.result]), call.pages, call.labels)
    /\ (Validated /\ call.result.t = "dict" /\ DOMAIN call.result.d = {"labels"}
          /\ call.result.d["labels"].t = "list")
          => ret = _validate_classification_result(
                      call.result.d["labels"], call.pages, call.labels)

\* an object whose labels array holds a valid record beside an invalid one
\* was validated to the valid record
C24_Witness ==
    /\ Validated
    /\ call.result = JDict([labels |->
          JList(<<ClassRecord(1, Invoice, JNum(9)), ClassRecord(2, Invoice, JNum(11))>>)])
    /\ ret = Return(JList(<<ClassRecord(1, Invoice, JNum(9))>>))

\* is a the sequence b with some of its items left out?
RECURSIVE IsSubsequence(_, _)
IsSubsequence(a, b) ==
    IF a = <<>> THEN TRUE
    ELSE IF b = <<>> THEN FALSE
    ELSE IF Head(a) = Head(b) THEN IsSubsequence(Tail(a), Tail(b))
    ELSE IsSubsequence(a, Tail(b))

\* the model's array: the reply itself, or its labels value
ModelArray(result) ==
    IF result.t = "list" THEN result.items
    ELSE IF result.t = "dict" /\ "labels" \in DOMAIN result.d
            /\ result.d["labels"].t = "list" THEN result.d["labels"].items
    ELSE <<>>

\* C25: the classification validator neither repairs nor invents: the
\* records it returns are records of the model's array, each with all its
\* keys and values as the model gave them, in the model's order and no more
\* of them than the array has; the caller's labels and pages are as they
\* were
C25_NoRepair ==
    [][call'.op = "_validate_classification_result"
          => /\ call'.labels = call.labels
             /\ call'.pages = call.pages
             /\ call'.result = call.result
             /\ ret'.raised = ""
                   => /\ ret'.value.t = "list"
                      /\ IsSubsequence(ret'.value.items, ModelArray(call.result))
                      /\ Len(ret'.value.items) <= Len(ModelArray(call.result))]_vars

\* a record with a key of its own was returned as it is, the record with
\* a confidence above the range beside it was dropped
C25_Witness ==
    /\ Validated
    /\ call.result.t = "list"
    /\ Len(call.result.items) = 2
    /\ call.result.items[1] = ClassRecord(2, Invoice, JNum(11))
    /\ call.result.items[2] =
          JDict([page |-> JInt(6), label |-> Invoice, confidence |-> JInt(1),
                 note |-> JStr("x")])
    /\ ret = Return(JList(<<call.result.items[2]>>))

(***************************************************************************)
(* Properties of the extraction validator                                  *)
(***************************************************************************)
\* C26: for an object-shaped reply _validate_extraction_result returns as
\* errors the reply's errors value as it is, the empty list when the reply
\* has no errors key, however many of its fields were accepted or rejected
C26_ErrorsUnchanged ==
    (call.op = "_validate_extraction_result" /\ call.result.t = "dict")
       => /\ ret.raised = ""
          /\ ret.value.d["errors"] =
                (IF "errors" \in DOMAIN call.result.d
                    THEN call.result.d["errors"] ELSE JList(<<>>))

\* a reply with two fields rejected and one error of its own: the error is
\* the only one returned
C26_Witness ==
    /\ call.op = "_validate_extraction_result"
    /\ call.result.t = "dict"
    /\ DOMAIN call.result.d = {"fields", "errors"}
    /\ call.result.d["fields"] =
          JList(<<JStr("x"), Field("revenue", JInt(1000), JNum(9)),
                  JDict([name |-> JStr("revenue"), value |-> JInt(1)])>>)
    /\ call.result.d["errors"] = JList(<<JStr("no year found")>>)
    /\ ret.value.d["fields"] = JList(<<Field("revenue", JInt(1000), JNum(9))>>)
    /\ ret.value.d["errors"] = JList(<<JStr("no year found")>>)

(***************************************************************************)
(* Properties of the order of the decode checks                            *)
(***************************************************************************)
\* the message a decode failure was reported with: the one error returned
\* by extract_fields, the one logged by classify_pages
Reported ==
    IF call.op = "extract_fields"
       THEN (IF OneError THEN TheError ELSE None)
       ELSE ClassifyLogged(call.response)

\* the content of the first choice is a text that is empty once the
\* whitespace around it is trimmed, the empty string included
EmptyWhenTrimmed(response) ==
    /\ response.choices # <<>>
    /\ response.choices[1].t = "text"
    /\ Strip(response.choices[1]).chunks = <<>>

\* C27: classify_pages and extract_fields check a response for zero
\* choices, then null content, then blank content, then malformed JSON, and
\* report each with a message of its own: null content as empty content,
\* content that is empty once trimmed (the empty string included) as
\* whitespace-only content
C27_DecodeChecksInOrder ==
    (/\ call.op \in {"classify_pages", "extract_fields"} /\ WasReady
     /\ transport # <<>> /\ call.response.kind = "ok")
       => LET response == call.response IN
          /\ response.choices = <<>> => Reported = NoChoicesMsg
          /\ (response.choices # <<>> /\ response.choices[1] = None)
                => Reported = EmptyContentMsg
          /\ EmptyWhenTrimmed(response) => Reported = BlankContentMsg
          /\ (response.choices # <<>> /\ response.choices[1].t = "text"
                /\ ~EmptyWhenTrimmed(response)
                /\ ~IsJson(response.choices[1].chunks))
                => MentionsJSON(Reported)
          /\ Cardinality({NoChoicesMsg, EmptyContentMsg, BlankContentMsg}) = 3

(***************************************************************************)
(* Properties of the page selectors                                        *)
(***************************************************************************)
\* the page numbers of the batch returned, in its order
BatchPages == [i \in 1..Len(ret.value.items) |-> ret.value.items[i].d["page"]]

\* the range of the selector, when it is one
SelectedRange ==
    IF call.op = "_extract_page_samples" THEN call.page_range
    ELSE IF call.page_filter # None /\ "range" \in DOMAIN call.page_filter.d
       THEN call.page_filter.d["range"]
    ELSE None

Max(a, b) == IF a >= b THEN a ELSE b
Min(a, b) == IF a <= b THEN a ELSE b

\* C28: the batch of _extract_page_samples and of _extract_page_text holds
\* only page numbers of 1..N and none twice, whatever the selector; a range
\* gives the pages start..end inclusive that the document has, in order
C28_PagesOfTheDocument ==
    call.op \in {"_extract_page_samples", "_extract_page_text"}
       => LET N == Len(call.doc.texts) IN
          /\ \A i \in 1..Len(BatchPages) :
                BatchPages[i].t = "int" /\ BatchPages[i].i \in 1..N
          /\ \A i, j \in 1..Len(BatchPages) :
                i # j => BatchPages[i] # BatchPages[j]
          /\ SelectedRange # None
                => LET start == Max(1, Get(SelectedRange, "start", JInt(1)).i)
                       end == Min(N, Get(SelectedRange, "end", JInt(N)).i) IN
                   BatchPages = RangeList(start, end)

(***************************************************************************)
(* Properties of can_process                                               *)
(***************************************************************************)
\* the document's format: the one given, else the one of its URL; None
\* when neither is known
FormatOf(document) ==
    IF document.format \notin {None, JStr("")} THEN document.format
    ELSE document.url.format

\* pdf, txt, md, docx, html in the spellings of the model
SupportedInAnyCase ==
    {JStr("pdf"), JStr("PDF"), JStr("txt"), JStr("md"), JStr("docx"),
     JStr("html"), JStr("Html")}

\* C29: can_process returns true exactly when the provider is Ready, the
\* document's format when known is one of pdf, txt, md, docx, html in any
\* case, and its size when known is at most 100 MB; it returns false in
\* every state that is not Ready
C29_CanProcessIff ==
    call.op = "can_process"
       => LET document == call.document IN
          /\ ret = Return(JBool(
                /\ Ready
                /\ FormatOf(document) \notin {None, JStr("")}
                      => FormatOf(document) \in SupportedInAnyCase
                /\ document.size # None
                      => document.size.i <= 100 * 1024 * 1024))
          /\ ~Ready => ret = Return(JBool(FALSE))

\* a Ready provider accepted a document of 100 MB whose format is written
\* PDF
C29_Witness ==
    /\ call.op = "can_process"
    /\ Ready
    /\ call.document.format = JStr("PDF")
    /\ call.document.size = JInt(100 * 1024 * 1024)
    /\ ret = Return(JBool(TRUE))

(***************************************************************************)
(* Properties of _build_summary_prompt                                     *)
(***************************************************************************)
RecognizedStyles == {JStr("bullet"), JStr("paragraph"), JStr("executive")}

\* a style tag: a string, or another value a dict can be asked for
StyleTag(style) == style.t \notin {"list", "dict"}

\* the prompt of style on the provider self
PromptOf(self, style) == _build_summary_prompt(self, style)

\* C30: _build_summary_prompt returns for every style tag other than
\* bullet, paragraph and executive the string it returns for bullet, and
\* three pairwise different strings for the three tags; the string is the
\* same on every provider
C30_BulletIsTheFallback ==
    (call.op = "_build_summary_prompt" /\ StyleTag(call.style))
       => /\ ret.raised = ""
          /\ ret.value.t = "text"
          /\ \A self \in ProviderStates :
                /\ PromptOf(self, call.style) = ret
                /\ call.style \notin RecognizedStyles
                      => ret = PromptOf(self, JStr("bullet"))
                /\ \A a, b \in RecognizedStyles :
                      a # b => PromptOf(self, a) # PromptOf(self, b)
          /\ \A other \in RecognizedStyles \ {JStr("bullet")} :
                call.style = other
                   => ret # PromptOf(Provider(config, _initialized, _client),
                                     JStr("bullet"))

\* an unrecognized tag was given the prompt of bullet
C30_Witness ==
    /\ call.op = "_build_summary_prompt"
    /\ call.style = JStr("detailed")
    /\ ret = Return(JText(
          <<Ch("Summarize the following page content.\n"),
            Ch("Create a concise bullet-point summary (3-5 points)."),
            Ch("\n\nFocus on factual information and key data points. Avoid speculation.")>>))

====
